---- MODULE Spec2Model ----
(***************************************************************************)
(* Model of the outlier/inlier property-comparison engine of DBDeltaChart  *)
(* (hyperdx, packages/app/src/components/DBDeltaChart.tsx).                 *)
(*                                                                         *)
(* JavaScript values are modelled as follows.                              *)
(*   - a string is a TLA+ string; characters are reached with SubSeq;      *)
(*   - a JS Map is a sequence of <<key, value>> pairs in insertion order;  *)
(*   - a JS array is a sequence;                                           *)
(*   - an optional field of an object is a field that a record may lack.   *)
(***************************************************************************)
EXTENDS Integers, Sequences, FiniteSets, TLC

VARIABLES
    data,       \* applyTopNAggregation: the argument `data`
    chartData,  \* applyTopNAggregation: the returned array
    topnPc,     \* "call" before applyTopNAggregation ran, "done" after
    hcArgs,     \* isHighCardinality: the five arguments
    hcParams,   \* the totals and distinct-value counts hcArgs was built from
    hcResult,   \* isHighCardinality: the returned boolean
    hcPc,       \* "call" before isHighCardinality ran, "done" after
    outlierData,  \* DBDeltaChart: result of the outlier query, or undefined
    inlierData,   \* DBDeltaChart: result of the inlier query, or undefined
    memo,         \* DBDeltaChart: the value returned by the useMemo callback
    memoLocals,   \* the callback's locals that are not returned
    flatArg,      \* flattenData: the argument `data`
    flatResult,   \* flattenData: the returned flat record
    flatPc,       \* "call" before flattenData ran, "done" after
    sqlArgs,      \* flattenedKeyToSqlExpression: key and columnMeta
    sqlParams,    \* the parts the key of sqlArgs was built from
    sqlResult,    \* flattenedKeyToSqlExpression: the returned string
    sqlPc,        \* "call" before flattenedKeyToSqlExpression ran, "done" after
    clsArgs,      \* field classifier: key, columnMeta and the statistics
    clsParams,    \* the parts the key of clsArgs was built from
    clsResult,    \* isIdField, isTimestampArrayField, isDenylisted, the split
    clsPc,        \* "call" before the classifier ran, "done" after
    onAddFilter,  \* DBDeltaChart: whether the caller passed the onAddFilter prop
    charts,       \* PropertyComparisonChart: the chartData of every chart
    renders,      \* what a render computes from each pair of query results
    clickedBar,   \* PropertyComparisonChart: the clickedBar state of every chart
    emitted,      \* the caller's onAddFilter: how many calls it received, and the last
    scoreArg,     \* computeDistributionScore: the argument `distribution`
    scoreResult,  \* computeDistributionScore: the returned number
    scorePc,      \* "call" before computeDistributionScore ran, "done" after
    roleArgs,     \* mapOidcRolesToHdxRole: keycloakRoles, roleMapping, defaultRole
    roleResult,   \* mapOidcRolesToHdxRole: the returned role
    rolePc,       \* "call" before mapOidcRolesToHdxRole ran, "done" after
    encArg,       \* parseAsStringEncoded: the string handed to serialize or to parse
    encSerialized,  \* the outcome of serialize(encArg)
    encParsed,    \* the outcome of parse
    encPc,        \* the call to make next, then "threw", "done" (round trip) or "read"
    localStorage,    \* the item stored under STORAGE_KEY, or NoItem
    migrationCache,  \* the module variable migrationCache
    prefMigrated,    \* what each migrateUserPreferences call returned, oldest first
    prefReturned,    \* what the last storageWithMigration.getItem call returned
    prefWrites,      \* the localStorage.setItem calls made so far
    users,        \* the User collection: the documents, _id = position
    teams,        \* the Team collection: the documents, _id = position
    logins        \* the findOrCreateOidcUser calls: position, argument, locals

topnVars == <<data, chartData, topnPc>>
hcVars == <<hcArgs, hcParams, hcResult, hcPc>>
deltaVars == <<outlierData, inlierData, memo, memoLocals>>
flatVars == <<flatArg, flatResult, flatPc>>
sqlVars == <<sqlArgs, sqlParams, sqlResult, sqlPc>>
clsVars == <<clsArgs, clsParams, clsResult, clsPc>>
uiVars == <<onAddFilter, charts, renders, clickedBar, emitted>>
scoreVars == <<scoreArg, scoreResult, scorePc>>
roleVars == <<roleArgs, roleResult, rolePc>>
encVars == <<encArg, encSerialized, encParsed, encPc>>
prefVars == <<localStorage, migrationCache, prefMigrated, prefReturned, prefWrites>>
oidcVars == <<users, teams, logins>>
appVars == <<uiVars, scoreVars, roleVars, encVars, prefVars, oidcVars>>
\* What the actions of one part leave alone.
coreVars == <<topnVars, hcVars, deltaVars, flatVars, sqlVars, clsVars>>
uiOtherVars == <<topnVars, hcVars, flatVars, sqlVars, clsVars, scoreVars, roleVars, encVars, prefVars, oidcVars>>
scoreOtherVars == <<coreVars, uiVars, roleVars, encVars, prefVars, oidcVars>>
roleOtherVars == <<coreVars, uiVars, scoreVars, encVars, prefVars, oidcVars>>
encOtherVars == <<coreVars, uiVars, scoreVars, roleVars, prefVars, oidcVars>>
prefOtherVars == <<coreVars, uiVars, scoreVars, roleVars, encVars, oidcVars>>
oidcOtherVars == <<coreVars, uiVars, scoreVars, roleVars, encVars, prefVars>>
vars == <<topnVars, hcVars, deltaVars, flatVars, sqlVars, clsVars, appVars>>

(***************************************************************************)
(* Bounds of the model.                                                    *)
(***************************************************************************)
MaxRows == 7
HCMaxTotal == 11
MaxGroupRows == 11

(***************************************************************************)
(* Generic helpers for JavaScript built-ins.                               *)
(***************************************************************************)

\* The sequence f with every element evaluated once (TLC evaluates a
\* function expression anew at every application otherwise).
Tabulate(f) == f \o <<>>

\* String(n) for a non-negative integer n: its decimal digits.
RECURSIVE NumToString(_)
NumToString(n) ==
    IF n < 10 THEN SubSeq("0123456789", n + 1, n + 1)
    ELSE NumToString(n \div 10) \o SubSeq("0123456789", (n % 10) + 1, (n % 10) + 1)

\* Array.prototype.sort with a comparator: the sort is stable, so the element
\* at input index i lands after every element that the comparator orders
\* before it and after every earlier element the comparator ties with it.
\* before[i, j] is "compare(seq[i], seq[j]) < 0".
StableSort(seq, before) ==
    LET n == Len(seq)
        rank == Tabulate([i \in 1..n |->
                    1 + Cardinality({j \in 1..n :
                            \/ before[j, i]
                            \/ (~before[i, j] /\ j < i)})])
    IN  Tabulate([p \in 1..n |-> seq[CHOOSE i \in 1..n : rank[i] = p]])

\* Array.from(new Set(seq)): the first occurrence of every element, in order.
Dedup(seq) ==
    LET first == SelectSeq(Tabulate([i \in 1..Len(seq) |-> i]),
                           LAMBDA i : \A j \in 1..(i - 1) : seq[j] # seq[i])
    IN  Tabulate([p \in 1..Len(first) |-> seq[first[p]]])

\* Array.prototype.slice(from) and slice(0, to) with zero-based bounds.
SliceFrom(seq, from) == SubSeq(seq, from + 1, Len(seq))
SliceTo(seq, to) == SubSeq(seq, 1, IF to < Len(seq) THEN to ELSE Len(seq))


\* Math.abs
Abs(x) == IF x < 0 THEN -x ELSE x


(***************************************************************************)
(* String built-ins.                                                       *)
(***************************************************************************)
CharAt(str, i) == SubSeq(str, i, i)

\* str.startsWith(prefix), str.endsWith(suffix), str.includes(ch)
StartsWith(str, prefix) ==
    Len(prefix) <= Len(str) /\ SubSeq(str, 1, Len(prefix)) = prefix
EndsWith(str, suffix) ==
    Len(suffix) <= Len(str)
        /\ SubSeq(str, Len(str) - Len(suffix) + 1, Len(str)) = suffix
Includes(str, ch) == \E i \in 1..Len(str) : CharAt(str, i) = ch

\* str.trim(); the type strings of the model hold no white space but " ".
RECURSIVE Trim(_)
Trim(str) ==
    IF Len(str) > 0 /\ CharAt(str, 1) = " " THEN Trim(SubSeq(str, 2, Len(str)))
    ELSE IF Len(str) > 0 /\ CharAt(str, Len(str)) = " "
    THEN Trim(SubSeq(str, 1, Len(str) - 1))
    ELSE str

\* The characters of the model's strings in code-unit order; CharCode is
\* the position, which orders them as their UTF-16 code units do.
Ascii ==
    " ()-.0123456789:ABCDEFGHIJKLMNOPQRSTUVWXYZ[]_abcdefghijklmnopqrstuvwxyz{}"
CharCode(ch) == CHOOSE i \in 1..Len(Ascii) : CharAt(Ascii, i) = ch

\* a < b as the default sort compares strings: by code units, a proper
\* prefix first.
RECURSIVE StrLess(_, _)
StrLess(a, b) ==
    IF Len(b) = 0 THEN FALSE
    ELSE IF Len(a) = 0 THEN TRUE
    ELSE IF CharAt(a, 1) # CharAt(b, 1)
    THEN CharCode(CharAt(a, 1)) < CharCode(CharAt(b, 1))
    ELSE StrLess(SubSeq(a, 2, Len(a)), SubSeq(b, 2, Len(b)))

IsDigit(ch) == Includes("0123456789", ch)

(***************************************************************************)
(* JS values of a query result.  A primitive is [t, s]: its type and its   *)
(* String() form, which identifies a primitive of a given type.  An array  *)
(* is [t |-> "array", e |-> elements]; an object is [t |-> "object",        *)
(* f |-> <<key, value>> entries in enumeration order, ref |-> identity].   *)
(* Two objects are the same Map key only if they are the same object, so   *)
(* an object carries the identity of its allocation in ref.                *)
(***************************************************************************)
Str(str) == [t |-> "string", s |-> str]
Num(n) == [t |-> "number", s |-> NumToString(n)]
Arr(elems) == [t |-> "array", e |-> elems]
Obj(entries) == [t |-> "object", f |-> entries, ref |-> "input"]

\* String(value), as the default sort and the chart labels convert a value.
ToStr(value) ==
    IF value.t = "object" THEN "[object Object]" ELSE value.s

(***************************************************************************)
(* A JS Map: the sequence of its <<key, value>> entries in insertion order. *)
(***************************************************************************)
MapHas(m, k) == \E i \in 1..Len(m) : m[i][1] = k

\* m.get(k) for a key the map has.
MapGet(m, k) == m[CHOOSE i \in 1..Len(m) : m[i][1] = k][2]

\* m.get(k) ?? dflt, m.get(k) || dflt for values that are never falsy.
MapGetOr(m, k, dflt) == IF MapHas(m, k) THEN MapGet(m, k) ELSE dflt

\* m.set(k, v): an existing key keeps its position.
MapSet(m, k, v) ==
    IF MapHas(m, k)
    THEN Tabulate([i \in 1..Len(m) |-> IF m[i][1] = k THEN <<k, v>> ELSE m[i]])
    ELSE Append(m, <<k, v>>)

\* [...m.keys()]
MapKeys(m) == Tabulate([i \in 1..Len(m) |-> m[i][1]])

\* m.size
MapSize(m) == Len(m)

(***************************************************************************)
(* Non-integer numbers (percentages, ratios) are exact fractions           *)
(* [num, den] in lowest terms with den > 0; floating-point rounding is not *)
(* modelled.                                                               *)
(***************************************************************************)
RECURSIVE GCD(_, _)
GCD(a, b) == IF b = 0 THEN a ELSE GCD(b, a % b)

Frac(n, d) ==
    LET g == GCD(Abs(n), d)
    IN  IF n = 0 THEN [num |-> 0, den |-> 1]
        ELSE [num |-> n \div g, den |-> d \div g]

FracLess(a, b) == a.num * b.den < b.num * a.den

\* Math.min
FracMin(a, b) == IF FracLess(b, a) THEN b ELSE a

\* Math.abs(a - b)
FracAbsDiff(a, b) == Frac(Abs(a.num * b.den - b.num * a.den), a.den * b.den)

(***************************************************************************)
(* Flattener.  The flat record `result` is a JS object with string keys    *)
(* that are not integer-like, so its entries enumerate in insertion order: *)
(* it is modelled like a Map.                                              *)
(***************************************************************************)

\* The outer `let l;` of the array branch: the loop declares its own l, so
\* the outer one is never assigned.
FlattenOuterL == [t |-> "undefined", s |-> "undefined"]

\* value == 0
LooseEqualsZero(value) == value.t = "number" /\ value.s = "0"

\* The object literal {} stored as a sentinel; alloc and the path name the
\* allocation.
NewEmptyObject(alloc, prop) ==
    [t |-> "object", f |-> <<>>, ref |-> alloc \o ":" \o prop]

IsObjectLike(cur) == cur.t \in {"array", "object"}

RECURSIVE recurse(_, _, _, _)
RECURSIVE recurseElements(_, _, _, _, _)
RECURSIVE recurseProperties(_, _, _, _, _)

\* for (let i = 0, l = cur.length; i < l; i++) recurse(cur[i], prop + '[' + i + ']')
recurseElements(result, cur, prop, i, alloc) ==
    IF i >= Len(cur.e) THEN result
    ELSE recurseElements(
            recurse(result, cur.e[i + 1],
                    prop \o "[" \o NumToString(i) \o "]", alloc),
            cur, prop, i + 1, alloc)

\* for (const p in cur) recurse(cur[p], prop ? prop + '.' + p : p)
recurseProperties(result, cur, prop, j, alloc) ==
    IF j > Len(cur.f) THEN result
    ELSE recurseProperties(
            recurse(result, cur.f[j][2],
                    IF prop # "" THEN prop \o "." \o cur.f[j][1] ELSE cur.f[j][1],
                    alloc),
            cur, prop, j + 1, alloc)

recurse(result, cur, prop, alloc) ==
    IF ~IsObjectLike(cur) THEN MapSet(result, prop, cur)
    ELSE IF cur.t = "array"
    THEN LET looped == recurseElements(result, cur, prop, 0, alloc)
         IN  IF LooseEqualsZero(FlattenOuterL)
             THEN MapSet(looped, prop, Arr(<<>>))
             ELSE looped
    ELSE LET looped == recurseProperties(result, cur, prop, 1, alloc)
             isEmpty == Len(cur.f) = 0
         IN  IF isEmpty /\ prop # ""
             THEN MapSet(looped, prop, NewEmptyObject(alloc, prop))
             ELSE looped

\* alloc names the objects this call allocates.
flattenData(row, alloc) == recurse(<<>>, row, "", alloc)

(***************************************************************************)
(* Statistics aggregator.                                                  *)
(***************************************************************************)
MIN_PROPERTY_OCCURENCES == 5

RECURSIVE ConcatAll(_)
ConcatAll(seqs) ==
    IF seqs = <<>> THEN <<>> ELSE Head(seqs) \o ConcatAll(Tail(seqs))

\* The two nested forEach loops visit the entries of the flattened records
\* in this order; both passes are described by what each visit does.
\* propertyOccurences.get(key) || 0 at the visit of entry n: the number of
\* earlier entries with the same key.
CountBefore(entries, n) ==
    Cardinality({m \in 1..(n - 1) : entries[m][1] = entries[n][1]})

\* Mutant: the threshold is exclusive.
ReachesMinimum_gt(count) == count + 1 > MIN_PROPERTY_OCCURENCES

\* if (count + 1 >= MIN_PROPERTY_OCCURENCES) commonProperties.add(key)
ReachesMinimum(count) == count + 1 >= MIN_PROPERTY_OCCURENCES

\* First pass: every visit sets the key's count to one more, so a key is
\* inserted at its first visit and ends with the number of its visits.
PropertyOccurences(entries) ==
    LET keys == Dedup(Tabulate([n \in 1..Len(entries) |-> entries[n][1]]))
        Visits(key) == Cardinality({n \in 1..Len(entries) : entries[n][1] = key})
    IN  Tabulate([k \in 1..Len(keys) |-> <<keys[k], Visits(keys[k])>>])

\* First pass: the keys some visit added to commonProperties.
CommonProperties(entries) ==
    {entries[n][1] : n \in {m \in 1..Len(entries) :
                               ReachesMinimum(CountBefore(entries, m))}}

\* Second pass: the visits of the entries with a common key.  A key gets
\* its values map at its first such visit; the map is keyed by the value
\* itself and counts the visits with that key and value.
ValueOccurences(entries, commonProperties) ==
    LET visited == SelectSeq(entries, LAMBDA e : e[1] \in commonProperties)
        keys == Dedup(Tabulate([n \in 1..Len(visited) |-> visited[n][1]]))
        ValuesMap(key) ==
            LET ofKey == SelectSeq(visited, LAMBDA e : e[1] = key)
                values == Dedup(Tabulate([n \in 1..Len(ofKey) |-> ofKey[n][2]]))
                Visits(value) ==
                    Cardinality({n \in 1..Len(ofKey) : ofKey[n][2] = value})
            IN  Tabulate([v \in 1..Len(values) |-> <<values[v], Visits(values[v])>>])
    IN  Tabulate([k \in 1..Len(keys) |-> <<keys[k], ValuesMap(keys[k])>>])

\* Mutant: the percentage is taken of all rows of the group.
Percentage_allRows(valueCount, propertyOccurences, property, rowCount) ==
    Frac(valueCount * 100, rowCount)

\* (valueCount / (propertyOccurences.get(property) ?? 0)) * 100; rowCount is
\* data.length, which the code does not use.
Percentage(valueCount, propertyOccurences, property, rowCount) ==
    Frac(valueCount * 100, MapGetOr(propertyOccurences, property, 0))

getPropertyStatistics(rows, alloc) ==
    LET flattened ==
            Tabulate([i \in 1..Len(rows) |->
                        flattenData(rows[i], alloc \o NumToString(i))])
        entries == ConcatAll(flattened)
        propertyOccurences == PropertyOccurences(entries)
        valueOccurences == ValueOccurences(entries, CommonProperties(entries))
        PercentageMap(property, valuesMap) ==
            Tabulate([v \in 1..Len(valuesMap) |->
                        <<valuesMap[v][1],
                          Percentage(valuesMap[v][2], propertyOccurences,
                                     property, Len(rows))>>])
        percentageOccurences ==
            Tabulate([p \in 1..Len(valueOccurences) |->
                        <<valueOccurences[p][1],
                          PercentageMap(valueOccurences[p][1],
                                        valueOccurences[p][2])>>])
    IN  [percentageOccurences |-> percentageOccurences,
         propertyOccurences |-> propertyOccurences]

(***************************************************************************)
(* Field classifier: the structural denylist.  A column descriptor is a    *)
(* record [name, type]; columnMeta is a sequence of them.                  *)
(***************************************************************************)

\* One round of the while loop: strip one wrapper, or leave t alone.
RECURSIVE StripLoop(_)
StripLoop(t) ==
    IF StartsWith(t, "LowCardinality(") /\ EndsWith(t, ")")
    THEN StripLoop(Trim(SubSeq(t, Len("LowCardinality(") + 1, Len(t) - 1)))
    ELSE IF StartsWith(t, "Nullable(") /\ EndsWith(t, ")")
    THEN StripLoop(Trim(SubSeq(t, Len("Nullable(") + 1, Len(t) - 1)))
    ELSE t

stripTypeWrappers(type) == StripLoop(Trim(type))

\* baseType.slice('Array('.length, -1)
ArrayInner(baseType) == SubSeq(baseType, Len("Array(") + 1, Len(baseType) - 1)

\* key.match(/^([^\[]+)\[(\d+)\]$/): the position of the first '[' when the
\* key is a non-empty bracket-free base, '[', one or more digits and a final
\* ']'; 0 when the key does not match.
ArrMatch(key) ==
    LET opens == {i \in 1..Len(key) : CharAt(key, i) = "["}
        first == CHOOSE i \in opens : \A j \in opens : i <= j
    IN  IF opens = {} THEN 0
        ELSE IF /\ first > 1
                /\ Len(key) >= first + 2
                /\ CharAt(key, Len(key)) = "]"
                /\ \A i \in (first + 1)..(Len(key) - 1) : IsDigit(CharAt(key, i))
        THEN first
        ELSE 0

\* arrMatch ? arrMatch[1] : key.includes('[') ? null : key; "" stands for
\* null (both are falsy in `if (!colName)`).
BaseColName(key) ==
    IF ArrMatch(key) > 0 THEN SubSeq(key, 1, ArrMatch(key) - 1)
    ELSE IF Includes(key, "[") THEN ""
    ELSE key

\* columnMeta.find(c => c.name === colName): its index, 0 when not found.
FindColumn(columnMeta, colName) ==
    LET hits == {i \in 1..Len(columnMeta) : columnMeta[i].name = colName}
    IN  IF hits = {} THEN 0 ELSE CHOOSE i \in hits : \A j \in hits : i <= j

\* Mutant: only a column of base type String is an ID column.
isIdField_noArray(key, columnMeta) ==
    LET colName == BaseColName(key)
        col == FindColumn(columnMeta, colName)
        baseType == stripTypeWrappers(columnMeta[col].type)
    IN  IF colName = "" THEN FALSE
        ELSE IF ~(EndsWith(colName, "Id") \/ EndsWith(colName, "ID")) THEN FALSE
        ELSE IF col = 0 THEN FALSE
        ELSE baseType = "String"

isIdField(key, columnMeta) ==
    LET colName == BaseColName(key)
        col == FindColumn(columnMeta, colName)
        baseType == stripTypeWrappers(columnMeta[col].type)
    IN  IF colName = "" THEN FALSE
        ELSE IF ~(EndsWith(colName, "Id") \/ EndsWith(colName, "ID")) THEN FALSE
        ELSE IF col = 0 THEN FALSE
        ELSE IF baseType = "String" THEN TRUE
        ELSE IF StartsWith(baseType, "Array(")
        THEN stripTypeWrappers(ArrayInner(baseType)) = "String"
        ELSE FALSE

\* Mutant: only the precision 9 without a timezone is recognised.
isTimestampArrayField_exact(key, columnMeta) ==
    LET colName == BaseColName(key)
        col == FindColumn(columnMeta, colName)
        baseType == stripTypeWrappers(columnMeta[col].type)
    IN  IF colName = "" THEN FALSE
        ELSE IF col = 0 THEN FALSE
        ELSE IF ~StartsWith(baseType, "Array(") THEN FALSE
        ELSE stripTypeWrappers(ArrayInner(baseType)) = "DateTime64(9)"

isTimestampArrayField(key, columnMeta) ==
    LET colName == BaseColName(key)
        col == FindColumn(columnMeta, colName)
        baseType == stripTypeWrappers(columnMeta[col].type)
    IN  IF colName = "" THEN FALSE
        ELSE IF col = 0 THEN FALSE
        ELSE IF ~StartsWith(baseType, "Array(") THEN FALSE
        ELSE StartsWith(stripTypeWrappers(ArrayInner(baseType)), "DateTime64(")

isDenylisted(key, columnMeta) ==
    isIdField(key, columnMeta) \/ isTimestampArrayField(key, columnMeta)

(***************************************************************************)
(* Path translator: flattenedKeyToSqlExpression.                           *)
(***************************************************************************)

\* parseInt(digits) for a string of decimal digits.
RECURSIVE ParseInt(_)
ParseInt(digits) ==
    IF Len(digits) = 0 THEN 0
    ELSE ParseInt(SubSeq(digits, 1, Len(digits) - 1)) * 10
            + (CHOOSE d \in 0..9 :
                  CharAt("0123456789", d + 1) = CharAt(digits, Len(digits)))

\* Mutant: the index is copied unchanged.
ChIndex_zeroBased(digits) == ParseInt(digits)

\* const chIndex = parseInt(match[1]) + 1
ChIndex(digits) == ParseInt(digits) + 1

\* Mutant: the map key ends at the next dot.
MapKeyOf_firstSegment(key, name) ==
    LET from == Len(name) + 2
        dots == {i \in from..Len(key) : CharAt(key, i) = "."}
    IN  IF dots = {} THEN SubSeq(key, from, Len(key))
        ELSE SubSeq(key, from, (CHOOSE i \in dots : \A j \in dots : i <= j) - 1)

\* key.slice(col.name.length + 1)
MapKeyOf(key, name) == SubSeq(key, Len(name) + 2, Len(key))

\* Mutant: the column name alone is taken for a map access.
MapPrefix_noDot(key, name) == StartsWith(key, name)

\* key.startsWith(col.name + '.')
MapPrefix(key, name) == StartsWith(key, name \o ".")

\* key.match(new RegExp(`^${escapeRegExp(name)}\\[(\\d+)\\]\\.(.+)$`)): the
\* escaped name matches itself literally, \d+ takes the whole run of digits
\* after the '[' and '.+' needs at least one character.  The groups are
\* index = match[1] and mapKey = match[2].
ArrayMapMatch(key, name) ==
    LET from == Len(name) + 2
        run == {e \in (from - 1)..Len(key) :
                    \A i \in from..e : IsDigit(CharAt(key, i))}
        last == CHOOSE e \in run : \A f \in run : f <= e
    IN  IF /\ StartsWith(key, name \o "[")
           /\ last >= from
           /\ Len(key) >= last + 3
           /\ SubSeq(key, last + 1, last + 2) = "]."
        THEN [matched |-> TRUE,
              index |-> SubSeq(key, from, last),
              mapKey |-> SubSeq(key, last + 3, Len(key))]
        ELSE [matched |-> FALSE]

\* `${col.name}['${mapKey}']`
MapExpression(name, mapKey) == name \o "['" \o mapKey \o "']"

\* `${col.name}[${chIndex}]['${mapKey}']`
ArrayMapExpression(name, chIndex, mapKey) ==
    name \o "[" \o NumToString(chIndex) \o "]['" \o mapKey \o "']"

\* for (const col of columnMeta) { ... } return key; from column c on.
RECURSIVE SqlLoop(_, _, _)
SqlLoop(key, columnMeta, c) ==
    IF c > Len(columnMeta) THEN key
    ELSE LET col == columnMeta[c]
             baseType == stripTypeWrappers(col.type)
             innerType == stripTypeWrappers(ArrayInner(baseType))
             match == ArrayMapMatch(key, col.name)
         IN  IF StartsWith(baseType, "Map(")
             THEN IF MapPrefix(key, col.name)
                  THEN MapExpression(col.name, MapKeyOf(key, col.name))
                  ELSE SqlLoop(key, columnMeta, c + 1)
             ELSE IF StartsWith(baseType, "Array(")
             THEN IF StartsWith(innerType, "Map(") /\ match.matched
                  THEN ArrayMapExpression(col.name, ChIndex(match.index),
                                          match.mapKey)
                  ELSE SqlLoop(key, columnMeta, c + 1)
             ELSE SqlLoop(key, columnMeta, c + 1)

\* Mutant: the columns are examined from the last to the first.
flattenedKeyToSqlExpression_lastMatch(key, columnMeta) ==
    SqlLoop(key,
            Tabulate([i \in 1..Len(columnMeta) |->
                         columnMeta[Len(columnMeta) + 1 - i]]),
            1)

flattenedKeyToSqlExpression(key, columnMeta) ==
    SqlLoop(key, columnMeta, 1)

(***************************************************************************)
(* Delta ranker.                                                           *)
(***************************************************************************)

\* The number 0 a missing percentage falls back to.
Zero == Frac(0, 1)

\* allValues.sort(): the default comparator orders by String(value).
DefaultBefore(values) ==
    [i \in 1..Len(values), j \in 1..Len(values) |->
        StrLess(ToStr(values[i]), ToStr(values[j]))]

mergeValueStatisticsMaps(outlierValues, inlierValues) ==
    LET allValues ==
            LET distinct == Dedup(MapKeys(outlierValues) \o MapKeys(inlierValues))
            IN  StableSort(distinct, DefaultBefore(distinct))
    IN  Tabulate([n \in 1..Len(allValues) |->
            [name |-> allValues[n],
             outlierCount |-> MapGetOr(outlierValues, allValues[n], Zero),
             inlierCount |-> MapGetOr(inlierValues, allValues[n], Zero)]])

\* let maxValueDelta = 0; mergedArray.forEach(item => { delta = Math.abs(...);
\* if (delta > maxValueDelta) maxValueDelta = delta }): the largest delta,
\* or the initial 0 when there is no item.
MaxValueDelta(mergedArray) ==
    LET deltas == {Zero} \cup
            {FracAbsDiff(mergedArray[n].outlierCount, mergedArray[n].inlierCount) :
                n \in 1..Len(mergedArray)}
    IN  CHOOSE d \in deltas : \A e \in deltas : ~FracLess(d, e)

\* The .map(key => [key, maxValueDelta]) step for one key.
KeyWithDelta(key, outlierValueOccurences, inlierValueOccurences) ==
    LET inlierCount == MapGetOr(inlierValueOccurences, key, <<>>)
        outlierCount == MapGetOr(outlierValueOccurences, key, <<>>)
        mergedArray == mergeValueStatisticsMaps(outlierCount, inlierCount)
    IN  <<key, MaxValueDelta(mergedArray)>>

\* Mutant: the keys of both groups are candidates.
UniqueKeys_union(outlierValueOccurences, inlierValueOccurences) ==
    Dedup(MapKeys(outlierValueOccurences) \o MapKeys(inlierValueOccurences))

\* uniqueKeys: the outlier keys, or the inlier keys when there are none.
UniqueKeys(outlierValueOccurences, inlierValueOccurences) ==
    IF Len(MapKeys(outlierValueOccurences)) = 0
    THEN MapKeys(inlierValueOccurences)
    ELSE MapKeys(outlierValueOccurences)

\* Mutant: ascending sort (a[1] - b[1]).
DeltaBefore_asc(pairs) ==
    [i \in 1..Len(pairs), j \in 1..Len(pairs) |->
        FracLess(pairs[i][2], pairs[j][2])]

\* .sort((a, b) => b[1] - a[1]): negative when a's delta is the larger one.
DeltaBefore(pairs) ==
    [i \in 1..Len(pairs), j \in 1..Len(pairs) |->
        FracLess(pairs[j][2], pairs[i][2])]

SortedProperties(uniqueKeys, outlierValueOccurences, inlierValueOccurences) ==
    LET pairs == Tabulate([n \in 1..Len(uniqueKeys) |->
                    KeyWithDelta(uniqueKeys[n], outlierValueOccurences,
                                 inlierValueOccurences)])
        sorted == StableSort(pairs, DeltaBefore(pairs))
    IN  Tabulate([n \in 1..Len(sorted) |-> sorted[n][1]])

(***************************************************************************)
(* Top-N aggregator.                                                       *)
(***************************************************************************)
MAX_CHART_VALUES == 6

\* rest.reduce((sum, item) => sum + item.outlierCount, 0)
SumOutlierCount(rows) ==
    LET f[i \in 0..Len(rows)] ==
            IF i = 0 THEN 0 ELSE f[i - 1] + rows[i].outlierCount
    IN  f[Len(rows)]

\* rest.reduce((sum, item) => sum + item.inlierCount, 0)
SumInlierCount(rows) ==
    LET f[i \in 0..Len(rows)] ==
            IF i = 0 THEN 0 ELSE f[i - 1] + rows[i].inlierCount
    IN  f[Len(rows)]

\* (a, b) => b.outlierCount + b.inlierCount - (a.outlierCount + a.inlierCount)
TopNCompare(a, b) ==
    b.outlierCount + b.inlierCount - (a.outlierCount + a.inlierCount)

\* The comparator's verdict on every pair of rows of d.
TopNBefore(d) ==
    [i \in 1..Len(d), j \in 1..Len(d) |-> TopNCompare(d[i], d[j]) < 0]

\* Mutant: the guard uses < instead of <=.
applyTopNAggregation_lt(d) ==
    IF Len(d) < MAX_CHART_VALUES THEN d
    ELSE
        LET sorted == StableSort(d, TopNBefore(d))
            top == SliceTo(sorted, MAX_CHART_VALUES)
            rest == SliceFrom(sorted, MAX_CHART_VALUES)
        IN  Append(top, [name |-> "Other (" \o NumToString(Len(rest)) \o ")",
                         outlierCount |-> SumOutlierCount(rest),
                         inlierCount |-> SumInlierCount(rest),
                         isOther |-> TRUE])

\* Mutant: the rest starts one row too late, so one row is dropped.
applyTopNAggregation_drop(d) ==
    IF Len(d) <= MAX_CHART_VALUES THEN d
    ELSE
        LET sorted == StableSort(d, TopNBefore(d))
            top == SliceTo(sorted, MAX_CHART_VALUES)
            rest == SliceFrom(sorted, MAX_CHART_VALUES + 1)
        IN  Append(top, [name |-> "Other (" \o NumToString(Len(rest) + 1) \o ")",
                         outlierCount |-> SumOutlierCount(rest),
                         inlierCount |-> SumInlierCount(rest),
                         isOther |-> TRUE])

\* Mutant: the copy is not sorted before it is cut.
applyTopNAggregation_nosort(d) ==
    IF Len(d) <= MAX_CHART_VALUES THEN d
    ELSE
        LET top == SliceTo(d, MAX_CHART_VALUES)
            rest == SliceFrom(d, MAX_CHART_VALUES)
        IN  Append(top, [name |-> "Other (" \o NumToString(Len(rest)) \o ")",
                         outlierCount |-> SumOutlierCount(rest),
                         inlierCount |-> SumInlierCount(rest),
                         isOther |-> TRUE])

applyTopNAggregation(d) ==
    IF Len(d) <= MAX_CHART_VALUES THEN d
    ELSE
        LET sorted == StableSort(d, TopNBefore(d))
            top == SliceTo(sorted, MAX_CHART_VALUES)
            rest == SliceFrom(sorted, MAX_CHART_VALUES)
        IN  Append(top, [name |-> "Other (" \o NumToString(Len(rest)) \o ")",
                         outlierCount |-> SumOutlierCount(rest),
                         inlierCount |-> SumInlierCount(rest),
                         isOther |-> TRUE])

\* entry.isOther of a row: undefined (falsy) when the row has no such field.
IsOther(row) == IF "isOther" \in DOMAIN row THEN row.isOther ELSE FALSE

(***************************************************************************)
(* Inputs of the Top-N aggregator: rows with distinct names (the names are *)
(* the keys of a Set in mergeValueStatisticsMaps) and counts taken from a  *)
(* set with ties in the combined count and different outlier/inlier splits. *)
(***************************************************************************)
TopNCounts == {<<0, 1>>, <<1, 0>>, <<2, 1>>}

TopNName(i) == SubSeq("abcdefghijklmnop", i, i)

TopNInputs ==
    UNION {
        {[i \in 1..n |-> [name |-> TopNName(i),
                          outlierCount |-> c[i][1],
                          inlierCount |-> c[i][2]]] : c \in [1..n -> TopNCounts]}
        : n \in 0..MaxRows}

TopNIdle ==
    /\ data = <<>>
    /\ chartData = <<>>
    /\ topnPc = "idle"

HCIdle ==
    /\ hcArgs = <<>>
    /\ hcParams = <<>>
    /\ hcResult = FALSE
    /\ hcPc = "idle"

DeltaIdle ==
    /\ outlierData = <<>>
    /\ inlierData = <<>>
    /\ memo = <<>>
    /\ memoLocals = <<>>

FlatIdle ==
    /\ flatArg = <<>>
    /\ flatResult = <<>>
    /\ flatPc = "idle"

SqlIdle ==
    /\ sqlArgs = <<>>
    /\ sqlParams = <<>>
    /\ sqlResult = ""
    /\ sqlPc = "idle"

ClsIdle ==
    /\ clsArgs = <<>>
    /\ clsParams = <<>>
    /\ clsResult = <<>>
    /\ clsPc = "idle"

UiIdle ==
    /\ onAddFilter = FALSE
    /\ charts = <<>>
    /\ renders = <<>>
    /\ clickedBar = <<>>
    /\ emitted = <<>>

ScoreIdle ==
    /\ scoreArg = <<>>
    /\ scoreResult = <<>>
    /\ scorePc = "idle"

RoleIdle ==
    /\ roleArgs = <<>>
    /\ roleResult = ""
    /\ rolePc = "idle"

EncIdle ==
    /\ encArg = <<>>
    /\ encSerialized = <<>>
    /\ encParsed = <<>>
    /\ encPc = "idle"

PrefIdle ==
    /\ localStorage = <<>>
    /\ migrationCache = <<>>
    /\ prefMigrated = <<>>
    /\ prefReturned = <<>>
    /\ prefWrites = <<>>

OidcIdle ==
    /\ users = <<>>
    /\ teams = <<>>
    /\ logins = <<>>

AppIdle == UiIdle /\ ScoreIdle /\ RoleIdle /\ EncIdle /\ PrefIdle /\ OidcIdle

CoreIdle == TopNIdle /\ HCIdle /\ DeltaIdle /\ FlatIdle /\ SqlIdle /\ ClsIdle

AllIdle == TopNIdle /\ HCIdle /\ DeltaIdle /\ FlatIdle /\ SqlIdle /\ ClsIdle /\ AppIdle

TopNInit ==
    /\ data \in TopNInputs
    /\ chartData = <<>>
    /\ topnPc = "call"
    /\ HCIdle
    /\ DeltaIdle
    /\ FlatIdle /\ SqlIdle /\ ClsIdle /\ AppIdle

CallApplyTopNAggregation ==
    /\ topnPc = "call"
    /\ chartData' = applyTopNAggregation(data)
    /\ topnPc' = "done"
    /\ UNCHANGED <<data, hcVars, deltaVars, flatVars, sqlVars, clsVars, appVars>>

TopNNext == CallApplyTopNAggregation

TopNSpec == TopNInit /\ [][TopNNext]_vars

(***************************************************************************)
(* Properties of the Top-N aggregator.                                     *)
(***************************************************************************)

\* Sum of f over the finite index set S.
RECURSIVE SumFn(_, _)
SumFn(f, S) ==
    IF S = {} THEN 0
    ELSE LET x == CHOOSE y \in S : TRUE IN f[x] + SumFn(f, S \ {x})

CombinedTotal(rows) ==
    SumFn([i \in 1..Len(rows) |-> rows[i].outlierCount + rows[i].inlierCount],
          1..Len(rows))

\* Index in `data` of the input row with a given name (names are distinct).
DataIndex(name) == CHOOSE i \in 1..Len(data) : data[i].name = name

\* Indices of the input rows that are not among the first six output rows.
DroppedIndices ==
    {i \in 1..Len(data) :
        \A p \in 1..MAX_CHART_VALUES : chartData[p].name # data[i].name}

RowTotal(row) == row.outlierCount + row.inlierCount

C2_TopNSmallInputUnchanged ==
    (topnPc = "done" /\ Len(data) <= 6) =>
        /\ chartData = data
        /\ \A p \in 1..Len(chartData) : ~IsOther(chartData[p])

C2_Witness ==
    /\ topnPc = "done"
    /\ Len(data) = 6
    /\ chartData = data

HC_MIN_SAMPLE == 20

\* The literal 0.9.
HC_UNIQUENESS == Frac(9, 10)

\* Mutant: Math.max instead of Math.min.
isHighCardinality_max(key, outlierValueOccurences, inlierValueOccurences, outlierPropertyOccurences, inlierPropertyOccurences) ==
    LET outlierTotal == MapGetOr(outlierPropertyOccurences, key, 0)
        inlierTotal == MapGetOr(inlierPropertyOccurences, key, 0)
        combinedSampleSize == outlierTotal + inlierTotal
        outlierUniqueValues ==
            IF MapHas(outlierValueOccurences, key)
            THEN MapSize(MapGet(outlierValueOccurences, key)) ELSE 0
        inlierUniqueValues ==
            IF MapHas(inlierValueOccurences, key)
            THEN MapSize(MapGet(inlierValueOccurences, key)) ELSE 0
        outlierUniqueness == Frac(outlierUniqueValues, outlierTotal)
        inlierUniqueness == Frac(inlierUniqueValues, inlierTotal)
    IN  IF combinedSampleSize <= HC_MIN_SAMPLE THEN FALSE
        ELSE IF outlierTotal > 0 /\ inlierTotal > 0
        THEN FracLess(HC_UNIQUENESS,
                      IF FracLess(outlierUniqueness, inlierUniqueness)
                      THEN inlierUniqueness ELSE outlierUniqueness)
        ELSE IF outlierTotal > 0 THEN FracLess(HC_UNIQUENESS, outlierUniqueness)
        ELSE IF inlierTotal > 0 THEN FracLess(HC_UNIQUENESS, inlierUniqueness)
        ELSE FALSE

\* outlierUniqueness and inlierUniqueness are null when the group's total is
\* 0; the branches below test the totals where the code tests for null.
isHighCardinality(key, outlierValueOccurences, inlierValueOccurences, outlierPropertyOccurences, inlierPropertyOccurences) ==
    LET outlierTotal == MapGetOr(outlierPropertyOccurences, key, 0)
        inlierTotal == MapGetOr(inlierPropertyOccurences, key, 0)
        combinedSampleSize == outlierTotal + inlierTotal
        outlierUniqueValues ==
            IF MapHas(outlierValueOccurences, key)
            THEN MapSize(MapGet(outlierValueOccurences, key)) ELSE 0
        inlierUniqueValues ==
            IF MapHas(inlierValueOccurences, key)
            THEN MapSize(MapGet(inlierValueOccurences, key)) ELSE 0
        outlierUniqueness == Frac(outlierUniqueValues, outlierTotal)
        inlierUniqueness == Frac(inlierUniqueValues, inlierTotal)
    IN  IF combinedSampleSize <= HC_MIN_SAMPLE THEN FALSE
        ELSE IF outlierTotal > 0 /\ inlierTotal > 0
        THEN FracLess(HC_UNIQUENESS, FracMin(outlierUniqueness, inlierUniqueness))
        ELSE IF outlierTotal > 0 THEN FracLess(HC_UNIQUENESS, outlierUniqueness)
        ELSE IF inlierTotal > 0 THEN FracLess(HC_UNIQUENESS, inlierUniqueness)
        ELSE FALSE

(***************************************************************************)
(* Inputs of isHighCardinality.  For each group the key is absent from the *)
(* occurrence map (total = -1) or has a total in 0..HCMaxTotal, and is     *)
(* absent from the distribution map (unique = -1) or has a distribution   *)
(* with 0..HCMaxTotal distinct values.  Every map also holds an entry for  *)
(* another property, which the result must not depend on.                  *)
(***************************************************************************)
HCKey == "field"
HCOtherKey == "other"

\* A distribution with n distinct values of equal percentage.
HCValuesMap(n) ==
    [j \in 1..n |-> <<"v" \o NumToString(j), Frac(100, n)>>]

HCPropertyOccurences(total, otherTotal) ==
    <<<<HCOtherKey, otherTotal>>>>
        \o (IF total < 0 THEN <<>> ELSE <<<<HCKey, total>>>>)

HCValueOccurences(unique, otherUnique) ==
    <<<<HCOtherKey, HCValuesMap(otherUnique)>>>>
        \o (IF unique < 0 THEN <<>> ELSE <<<<HCKey, HCValuesMap(unique)>>>>)

HCTotals == (-1)..HCMaxTotal

\* Distinct-value counts around the 0.9 line of a given total.
HCUniques(total) ==
    {-1, 0, 1} \cup {u \in 2..HCMaxTotal : total - u <= 2}

HCInit ==
    /\ hcParams \in {p \in [oT : HCTotals, oU : (-1)..HCMaxTotal,
                            iT : HCTotals, iU : (-1)..HCMaxTotal,
                            key : {HCKey, "unknownField"}] :
                        /\ p.oU \in HCUniques(p.oT)
                        /\ p.iU \in HCUniques(p.iT)}
    /\ hcArgs = [key |-> hcParams.key,
                 outlierValueOccurences |-> HCValueOccurences(hcParams.oU, 1),
                 inlierValueOccurences |-> HCValueOccurences(hcParams.iU, 12),
                 outlierPropertyOccurences |-> HCPropertyOccurences(hcParams.oT, 12),
                 inlierPropertyOccurences |-> HCPropertyOccurences(hcParams.iT, 12)]
    /\ hcResult = FALSE
    /\ hcPc = "call"
    /\ TopNIdle
    /\ DeltaIdle
    /\ FlatIdle /\ SqlIdle /\ ClsIdle /\ AppIdle

CallIsHighCardinality ==
    /\ hcPc = "call"
    /\ hcResult' = isHighCardinality(hcArgs.key,
                                     hcArgs.outlierValueOccurences,
                                     hcArgs.inlierValueOccurences,
                                     hcArgs.outlierPropertyOccurences,
                                     hcArgs.inlierPropertyOccurences)
    /\ hcPc' = "done"
    /\ UNCHANGED <<hcArgs, hcParams, topnVars, deltaVars, flatVars, sqlVars, clsVars, appVars>>

HCNext == CallIsHighCardinality

HCSpec == HCInit /\ [][HCNext]_vars

\* What the claim says about a group with `total` occurrences of the key and
\* `unique` distinct values (both 0 when the key is absent from the map).
HCTotalOf(t) == IF hcParams.key = HCKey /\ t >= 0 THEN t ELSE 0
HCUniquenessAbove(total, unique) == 10 * HCTotalOf(unique) > 9 * HCTotalOf(total)

C4_WitnessTrue ==
    /\ hcPc = "done"
    /\ hcParams.oT + hcParams.iT = 21
    /\ hcParams.oT > 0 /\ hcParams.iT > 0
    /\ hcResult

(***************************************************************************)
(* DBDeltaChart: the useMemo callback that derives the property lists.     *)
(* A query result is [loaded |-> FALSE] while it is undefined and          *)
(* [loaded |-> TRUE, hasMeta, meta, data] once fetched; meta is an optional *)
(* field of the response, present when hasMeta.                            *)
(***************************************************************************)
Undefined == [loaded |-> FALSE]

\* Mutant: the metadata of the inlier result is not consulted.
ColumnMeta_outlierOnly(outlier, inlier) ==
    IF outlier.loaded /\ outlier.hasMeta THEN outlier.meta ELSE <<>>

\* outlierData?.meta ?? inlierData?.meta ?? []
ColumnMeta(outlier, inlier) ==
    IF outlier.loaded /\ outlier.hasMeta THEN outlier.meta
    ELSE IF inlier.loaded /\ inlier.hasMeta THEN inlier.meta
    ELSE <<>>

\* outlierData?.data ?? []
RowsOf(result) == IF result.loaded THEN result.data ELSE <<>>

\* Mutant: a denylisted key is pushed to visibleProperties.
SplitStep_denyVisible(acc, key, l) ==
    IF isDenylisted(key, l.columnMeta)
    THEN [acc EXCEPT !.visibleProperties = Append(@, key)]
    ELSE IF isHighCardinality(key, l.outlierValueOccurences,
                              l.inlierValueOccurences,
                              l.outlierPropertyOccurences,
                              l.inlierPropertyOccurences)
    THEN [acc EXCEPT !.hiddenProperties = Append(@, key)]
    ELSE [acc EXCEPT !.visibleProperties = Append(@, key)]

\* The body of sortedProperties.forEach(key => ...); l holds the locals.
SplitStep(acc, key, l) ==
    IF isDenylisted(key, l.columnMeta)
    THEN [acc EXCEPT !.hiddenProperties = Append(@, key)]
    ELSE IF isHighCardinality(key, l.outlierValueOccurences,
                              l.inlierValueOccurences,
                              l.outlierPropertyOccurences,
                              l.inlierPropertyOccurences)
    THEN [acc EXCEPT !.hiddenProperties = Append(@, key)]
    ELSE [acc EXCEPT !.visibleProperties = Append(@, key)]

RECURSIVE SplitProperties(_, _, _)
SplitProperties(acc, l, n) ==
    IF n > Len(l.sortedProperties) THEN acc
    ELSE SplitProperties(SplitStep(acc, l.sortedProperties[n], l), l, n + 1)

\* The locals of the callback.
DeltaLocals(outlier, inlier) ==
    LET columnMeta == ColumnMeta(outlier, inlier)
        outlierStats == getPropertyStatistics(RowsOf(outlier), "o")
        inlierStats == getPropertyStatistics(RowsOf(inlier), "i")
        uniqueKeys == UniqueKeys(outlierStats.percentageOccurences,
                                 inlierStats.percentageOccurences)
    IN  [columnMeta |-> columnMeta,
         outlierValueOccurences |-> outlierStats.percentageOccurences,
         outlierPropertyOccurences |-> outlierStats.propertyOccurences,
         inlierValueOccurences |-> inlierStats.percentageOccurences,
         inlierPropertyOccurences |-> inlierStats.propertyOccurences,
         uniqueKeys |-> uniqueKeys,
         sortedProperties |->
            SortedProperties(uniqueKeys, outlierStats.percentageOccurences,
                             inlierStats.percentageOccurences)]

\* The value the callback returns, from its locals.
DeltaMemo(l) ==
    LET split == SplitProperties([visibleProperties |-> <<>>,
                                  hiddenProperties |-> <<>>], l, 1)
    IN  [outlierValueOccurences |-> l.outlierValueOccurences,
         inlierValueOccurences |-> l.inlierValueOccurences,
         columnMeta |-> l.columnMeta,
         visibleProperties |-> split.visibleProperties,
         hiddenProperties |-> split.hiddenProperties]

\* The locals the callback leaves behind besides the returned value.
DeltaKeptLocals(l) ==
    [outlierPropertyOccurences |-> l.outlierPropertyOccurences,
     inlierPropertyOccurences |-> l.inlierPropertyOccurences,
     uniqueKeys |-> l.uniqueKeys,
     sortedProperties |-> l.sortedProperties]

\* A render with the two query results: useMemo([outlierData, inlierData]).
Render(outlier, inlier) ==
    LET l == DeltaLocals(outlier, inlier)
    IN  /\ memo' = DeltaMemo(l)
        /\ memoLocals' = DeltaKeptLocals(l)

(***************************************************************************)
(* Query results.  The rows of a group are generated from a descriptor     *)
(* [n, kind]: n rows of one of the shapes below.  Row i of a group holds   *)
(*   TraceId  a String column, unique per row;                             *)
(*   attr     a Map column, so attr.k, attr.r, ... after flattening;       *)
(*   url      a String column, unique per row unless stated;               *)
(*   ts       an Array(DateTime64) column;                                 *)
(*   body     a JSON column, whose paths hold values of any type.          *)
(***************************************************************************)
TraceMeta ==
    <<[name |-> "TraceId", type |-> "String"],
      [name |-> "attr", type |-> "Map(LowCardinality(String), String)"],
      [name |-> "url", type |-> "LowCardinality(String)"],
      [name |-> "ts", type |-> "Array(DateTime64(9))"],
      [name |-> "body", type |-> "JSON"]>>

Tag(prefix, i) == Str(prefix \o NumToString(i))

RowOf(kind, n, i) ==
    CASE kind = "base" ->
            Obj(<< <<"TraceId", Tag("t", i)>>,
                   <<"attr", Obj(<< <<"k", Tag("v", i % 2)>> >>)>>,
                   <<"url", Tag("u", i)>>,
                   <<"ts", Arr(<<Str("d")>>)>> >>)
      [] kind = "skew" ->
            \* one value of attr.k for the whole group
            Obj(<< <<"TraceId", Tag("t", i)>>,
                   <<"attr", Obj(<< <<"k", Tag("v", 0)>> >>)>>,
                   <<"url", Tag("u", i)>> >>)
      [] kind = "mixed" ->
            \* body.n is the number 1 in odd rows and the string "1" in even rows
            Obj(<< <<"body", Obj(<< <<"n", IF i % 2 = 1 THEN Num(1) ELSE Str("1")>> >>)>>,
                   <<"url", Tag("u", i)>> >>)
      [] kind = "rare" ->
            \* attr.r in the first four rows only, attr.l in the last five only
            Obj(<< <<"attr",
                     Obj(<< <<"k", Tag("v", i % 2)>> >>
                         \o (IF i <= 4 THEN << <<"r", Str("x")>> >> ELSE <<>>)
                         \o (IF i > n - 5 THEN << <<"l", Tag("y", i % 3)>> >> ELSE <<>>))>>,
                   <<"url", Tag("u", i)>> >>)
      [] kind = "extra" ->
            \* url first and with three values only; attr.x instead of attr.k
            Obj(<< <<"url", Tag("u", i % 3)>>,
                   <<"attr", Obj(<< <<"x", Tag("v", i % 2)>> >>)>>,
                   <<"TraceId", Tag("t", i)>> >>)
      [] kind = "empty" ->
            \* attr has no entries in odd rows
            Obj(<< <<"attr", IF i % 2 = 1 THEN Obj(<<>>)
                             ELSE Obj(<< <<"k", Tag("v", 0)>> >>)>>,
                   <<"url", Tag("u", i)>> >>)

GroupKinds == {"base", "skew", "mixed", "rare", "extra", "empty"}
GroupSizes == {4, 5, MaxGroupRows - 1, MaxGroupRows}

GroupRows(g) == Tabulate([i \in 1..g.n |-> RowOf(g.kind, g.n, i)])

\* The results a query can deliver: no rows, or a generated group.
QueryResults ==
    {[loaded |-> TRUE, hasMeta |-> TRUE, meta |-> TraceMeta, data |-> <<>>]}
        \cup {[loaded |-> TRUE, hasMeta |-> TRUE, meta |-> TraceMeta,
               data |-> GroupRows(g)] :
                g \in [n : GroupSizes, kind : GroupKinds]}
        \cup {[loaded |-> TRUE, hasMeta |-> FALSE, meta |-> <<>>, data |-> rows] :
                rows \in {<<>>, GroupRows([n |-> MaxGroupRows, kind |-> "base"])}}

DeltaInit ==
    /\ outlierData = Undefined
    /\ inlierData = Undefined
    /\ memo = DeltaMemo(DeltaLocals(Undefined, Undefined))
    /\ memoLocals = DeltaKeptLocals(DeltaLocals(Undefined, Undefined))
    /\ TopNIdle
    /\ HCIdle
    /\ FlatIdle /\ SqlIdle /\ ClsIdle /\ AppIdle

\* The outlier query settles: the component renders with its data.
OutlierDataArrives ==
    \E result \in QueryResults :
        /\ ~outlierData.loaded
        /\ outlierData' = result
        /\ Render(result, inlierData)
        /\ UNCHANGED <<inlierData, topnVars, hcVars, flatVars, sqlVars, clsVars, appVars>>

\* The inlier query settles.
InlierDataArrives ==
    \E result \in QueryResults :
        /\ ~inlierData.loaded
        /\ inlierData' = result
        /\ Render(outlierData, result)
        /\ UNCHANGED <<outlierData, topnVars, hcVars, flatVars, sqlVars, clsVars, appVars>>

DeltaNext == OutlierDataArrives \/ InlierDataArrives

DeltaSpec == DeltaInit /\ [][DeltaNext]_vars

(***************************************************************************)
(* Properties of the derivation, stated over the rows of the two query     *)
(* results.                                                                *)
(***************************************************************************)

\* The flattened records of a query result.
FlatRows(result, alloc) ==
    LET rows == RowsOf(result)
    IN  Tabulate([i \in 1..Len(rows) |->
                    flattenData(rows[i], alloc \o NumToString(i))])

OutlierFlat == FlatRows(outlierData, "o")
InlierFlat == FlatRows(inlierData, "i")

\* Every path of some flattened record, and one that no record has.
PathsIn(flat) ==
    UNION {{flat[i][e][1] : e \in 1..Len(flat[i])} : i \in 1..Len(flat)}
AllPaths == PathsIn(OutlierFlat) \cup PathsIn(InlierFlat) \cup {"no.such"}

\* The records of a group that have path p, and those that hold v there.
RecordsWith(flat, p) == {i \in 1..Len(flat) : MapHas(flat[i], p)}
RecordsWithValue(flat, p, v) ==
    {i \in RecordsWith(flat, p) : MapGet(flat[i], p) = v}

SetOf(seq) == {seq[i] : i \in 1..Len(seq)}
IndexIn(seq, x) == CHOOSE i \in 1..Len(seq) : seq[i] = x

\* C8: for each group and every property path p, p is a key of the group's
\* value distribution iff p is a flattened key of at least 5 records of the
\* group.
C8_DistributionKeysAtLeastFive ==
    \A p \in AllPaths :
        /\ MapHas(memo.outlierValueOccurences, p)
              <=> Cardinality(RecordsWith(OutlierFlat, p)) >= 5
        /\ MapHas(memo.inlierValueOccurences, p)
              <=> Cardinality(RecordsWith(InlierFlat, p)) >= 5

\* One path with exactly 4 records (no key) and one with exactly 5 (a key)
\* in the same group.
C8_Witness ==
    /\ outlierData.loaded
    /\ \E p, q \in AllPaths :
          /\ Cardinality(RecordsWith(OutlierFlat, p)) = 4
          /\ ~MapHas(memo.outlierValueOccurences, p)
          /\ Cardinality(RecordsWith(OutlierFlat, q)) = 5
          /\ MapHas(memo.outlierValueOccurences, q)

FracAdd(a, b) == Frac(a.num * b.den + b.num * a.den, a.den * b.den)

RECURSIVE SumPercentages(_)
SumPercentages(valuesMap) ==
    IF valuesMap = <<>> THEN Zero
    ELSE FracAdd(valuesMap[1][2], SumPercentages(Tail(valuesMap)))

\* The claim of C9 for one group.
PercentagesExact(distribution, flat) ==
    \A k \in 1..Len(distribution) :
        LET p == distribution[k][1]
            valuesMap == distribution[k][2]
        IN  /\ \A n \in 1..Len(valuesMap) :
                  valuesMap[n][2] =
                      Frac(100 * Cardinality(RecordsWithValue(flat, p, valuesMap[n][1])),
                           Cardinality(RecordsWith(flat, p)))
            /\ SumPercentages(valuesMap) = Frac(100, 1)

OneBucketPerString(distribution) ==
    \A k \in 1..Len(distribution) :
        \A a, b \in 1..Len(distribution[k][2]) :
            a # b => ToStr(distribution[k][2][a][1]) # ToStr(distribution[k][2][b][1])

\* C10: the values of a property are bucketed by stringified equality: two
\* values with equal string forms (the number 1 and the string "1") share one
\* bucket of the value distribution.
C10_BucketsByStringForm ==
    /\ OneBucketPerString(memo.outlierValueOccurences)
    /\ OneBucketPerString(memo.inlierValueOccurences)

\* The keys a group's distribution has by C8: the paths of at least 5 records.
DistributionKeys(flat) ==
    {p \in PathsIn(flat) : Cardinality(RecordsWith(flat, p)) >= 5}

\* The group whose distribution supplies the candidates.
CandidateFlat ==
    IF DistributionKeys(OutlierFlat) # {} THEN OutlierFlat ELSE InlierFlat

\* C7: the candidate set is the key set of the outlier distribution when
\* that is non-empty and the key set of the inlier distribution only when it
\* is empty; so a property with a distribution among the inliers only is in
\* neither visibleProperties nor hiddenProperties once some outlier property
\* has a distribution.
C7_CandidatesFromOutliersFirst ==
    /\ SetOf(memoLocals.uniqueKeys) =
          (IF DistributionKeys(OutlierFlat) # {}
           THEN DistributionKeys(OutlierFlat)
           ELSE DistributionKeys(InlierFlat))
    /\ DistributionKeys(OutlierFlat) # {} =>
          \A p \in DistributionKeys(InlierFlat) \ DistributionKeys(OutlierFlat) :
              /\ p \notin SetOf(memo.visibleProperties)
              /\ p \notin SetOf(memo.hiddenProperties)

\* An inlier-only property next to outlier properties that are shown.
C7_Witness ==
    /\ DistributionKeys(OutlierFlat) # {}
    /\ DistributionKeys(InlierFlat) \ DistributionKeys(OutlierFlat) # {}
    /\ memo.visibleProperties # <<>>
    /\ SetOf(memo.visibleProperties) \cup SetOf(memo.hiddenProperties)
          = DistributionKeys(OutlierFlat)

\* The outlier result is loaded without any distribution: the inlier keys
\* are the candidates.
C7_WitnessFallback ==
    /\ outlierData.loaded
    /\ DistributionKeys(OutlierFlat) = {}
    /\ memo.visibleProperties # <<>>

\* The percentage of value v at property p in a group, 0 when the group has
\* no distribution for p or no record with that value.
PctOf(flat, p, v) ==
    IF p \in DistributionKeys(flat)
    THEN Frac(100 * Cardinality(RecordsWithValue(flat, p, v)),
              Cardinality(RecordsWith(flat, p)))
    ELSE Zero

\* The values seen at p in the distribution of either group.
ValuesAt(flat, p) ==
    IF p \in DistributionKeys(flat)
    THEN {MapGet(flat[i], p) : i \in RecordsWith(flat, p)}
    ELSE {}

\* maxDelta(p): the largest |outlierPct - inlierPct| over the values of p,
\* 0 without values.
MaxDeltaOf(p) ==
    LET deltas == {Zero} \cup
            {FracAbsDiff(PctOf(OutlierFlat, p, v), PctOf(InlierFlat, p, v)) :
                v \in ValuesAt(OutlierFlat, p) \cup ValuesAt(InlierFlat, p)}
    IN  CHOOSE d \in deltas : \A e \in deltas : ~FracLess(d, e)

\* Where p is first encountered among the records of the candidate group:
\* its first record, then its position in that record.
FirstEncounter(p) ==
    LET i == CHOOSE r \in RecordsWith(CandidateFlat, p) :
                \A q \in RecordsWith(CandidateFlat, p) : r <= q
    IN  <<i, CHOOSE e \in 1..Len(CandidateFlat[i]) : CandidateFlat[i][e][1] = p>>

EncounteredBefore(p, q) ==
    \/ FirstEncounter(p)[1] < FirstEncounter(q)[1]
    \/ /\ FirstEncounter(p)[1] = FirstEncounter(q)[1]
       /\ FirstEncounter(p)[2] < FirstEncounter(q)[2]

\* C6: the ranker lists every candidate once, by maxDelta descending;
\* candidates with equal maxDelta are in the order of first encounter.
C6_RankedByMaxDeltaStable ==
    LET sorted == memoLocals.sortedProperties
    IN  /\ SetOf(sorted) = SetOf(memoLocals.uniqueKeys)
        /\ Len(sorted) = Cardinality(SetOf(sorted))
        /\ \A a, b \in 1..Len(sorted) :
              a < b =>
                 \/ FracLess(MaxDeltaOf(sorted[b]), MaxDeltaOf(sorted[a]))
                 \/ /\ MaxDeltaOf(sorted[a]) = MaxDeltaOf(sorted[b])
                    /\ EncounteredBefore(sorted[a], sorted[b])

\* Both groups have data; the ranking moves a property forward past one with
\* a smaller delta, keeps two tied properties in encounter order and ends with
\* a property of delta 0.
C6_Witness ==
    LET sorted == memoLocals.sortedProperties
    IN  /\ outlierData.loaded /\ inlierData.loaded
        /\ Len(sorted) >= 3
        /\ \E a, b \in 1..Len(sorted) :
              /\ a < b
              /\ EncounteredBefore(sorted[b], sorted[a])
        /\ \E a, b \in 1..Len(sorted) :
              /\ a < b
              /\ MaxDeltaOf(sorted[a]) = MaxDeltaOf(sorted[b])
              /\ MaxDeltaOf(sorted[a]) # Zero
        /\ MaxDeltaOf(sorted[Len(sorted)]) = Zero

\* Whether the classifier hides a key, from the column metadata and the
\* statistics of the last render.
Denylisted(key) == isDenylisted(key, memo.columnMeta)
HighCardinality(key) ==
    isHighCardinality(key, memo.outlierValueOccurences,
                      memo.inlierValueOccurences,
                      memoLocals.outlierPropertyOccurences,
                      memoLocals.inlierPropertyOccurences)

\* seq lists its elements once and in the order they have in `order`.
InOrderOf(seq, order) ==
    \A a, b \in 1..Len(seq) :
        a < b => IndexIn(order, seq[a]) < IndexIn(order, seq[b])

\* C5: visibleProperties and hiddenProperties are disjoint, together they
\* are exactly the candidates, a candidate is hidden iff it is denylisted or
\* of high cardinality, and each list keeps the order of the ranked list.
C5_VisibleHiddenPartition ==
    LET visible == memo.visibleProperties
        hidden == memo.hiddenProperties
        sorted == memoLocals.sortedProperties
    IN  /\ SetOf(visible) \cap SetOf(hidden) = {}
        /\ SetOf(visible) \cup SetOf(hidden) = SetOf(memoLocals.uniqueKeys)
        /\ Len(visible) + Len(hidden) = Len(memoLocals.uniqueKeys)
        /\ \A key \in SetOf(memoLocals.uniqueKeys) :
              key \in SetOf(hidden) <=> (Denylisted(key) \/ HighCardinality(key))
        /\ InOrderOf(visible, sorted)
        /\ InOrderOf(hidden, sorted)

\* A render with a property that only the denylist hides, one that only its
\* cardinality hides and a visible one.
C5_Witness ==
    /\ \E key \in SetOf(memo.hiddenProperties) :
          Denylisted(key) /\ ~HighCardinality(key)
    /\ \E key \in SetOf(memo.hiddenProperties) :
          ~Denylisted(key) /\ HighCardinality(key)
    /\ memo.visibleProperties # <<>>
    /\ Len(memo.hiddenProperties) >= 3

(***************************************************************************)
(* flattenData on its own.  The argument is a row {a: v} whose value v is  *)
(* a scalar, an array or an object one level deep, alone or next to a      *)
(* column whose name "a.b" or "a[0]" is also a path inside v.              *)
(***************************************************************************)
FlatMaxElems == 2

\* null: Object(null) !== null, so the flattener stores it like a scalar.
Null == [t |-> "null", s |-> "null"]

FlatScalars == {Str("x"), Num(0), Null}

\* What an array element or an object property can hold.
FlatLeaves ==
    FlatScalars \cup {Arr(<<>>), Obj(<<>>), Obj(<< <<"k", Str("x")>> >>)}

FlatArrays ==
    UNION {{Arr(e) : e \in [1..n -> FlatLeaves]} : n \in 0..FlatMaxElems}

FlatObjects ==
    {Obj(<<>>)}
        \cup {Obj(<< <<"b", v>> >>) : v \in FlatLeaves \cup {Arr(<<Str("x")>>)}}
        \cup {Obj(<< <<"b", Str("x")>>, <<"c", v>> >>) : v \in FlatLeaves}

FlatRows1 ==
    {Obj(<<>>)}
        \cup {Obj(<< <<"a", v>> >>) : v \in FlatScalars \cup FlatArrays \cup FlatObjects}

\* The rows with a second column after or before column a.
FlatInputs ==
    FlatRows1
        \cup {Obj(row.f \o << <<extra, Str("y")>> >>) :
                row \in FlatRows1 \ {Obj(<<>>)}, extra \in {"a.b", "a[0]", "d"}}
        \cup {Obj(<< <<"a.b", Str("y")>> >> \o row.f) : row \in FlatRows1 \ {Obj(<<>>)}}

FlatInit ==
    /\ flatArg \in FlatInputs
    /\ flatResult = <<>>
    /\ flatPc = "call"
    /\ TopNIdle /\ HCIdle /\ DeltaIdle /\ SqlIdle /\ ClsIdle /\ AppIdle

CallFlattenData ==
    /\ flatPc = "call"
    /\ flatResult' = flattenData(flatArg, "r")
    /\ flatPc' = "done"
    /\ UNCHANGED <<flatArg, topnVars, hcVars, deltaVars, sqlVars, clsVars, appVars>>

FlatNext == CallFlattenData

FlatSpec == FlatInit /\ [][FlatNext]_vars

(***************************************************************************)
(* Properties of flattenData.                                              *)
(***************************************************************************)

\* The path of element i (zero-based) of an array at prop, and of property
\* key of an object at prop.
ElementPath(prop, i) == prop \o "[" \o NumToString(i) \o "]"
PropertyPath(prop, key) == IF prop = "" THEN key ELSE prop \o "." \o key

\* The nodes of a nested value with their paths, in depth-first order:
\* <<path, node>> for the value itself and everything below it.
RECURSIVE NodesOf(_, _)
NodesOf(cur, prop) ==
    << <<prop, cur>> >> \o
    (IF cur.t = "array"
     THEN ConcatAll([i \in 1..Len(cur.e) |->
                        NodesOf(cur.e[i], ElementPath(prop, i - 1))])
     ELSE IF cur.t = "object"
     THEN ConcatAll([j \in 1..Len(cur.f) |->
                        NodesOf(cur.f[j][2], PropertyPath(prop, cur.f[j][1]))])
     ELSE <<>>)

FlatNodes == NodesOf(flatArg, "")

IsScalar(value) == value.t \notin {"array", "object"}
IsEmptyArray(value) == value.t = "array" /\ value.e = <<>>
IsEmptyObject(value) == value.t = "object" /\ value.f = <<>>

\* The nodes the flat record has an entry for according to the flattening
\* rules: scalars, and empty containers at a non-empty path.
FlatEntryNodes ==
    SelectSeq(FlatNodes,
              LAMBDA n : \/ IsScalar(n[2])
                         \/ (n[1] # "" /\ (IsEmptyArray(n[2]) \/ IsEmptyObject(n[2]))))

\* The nodes with path p among a sequence of nodes.
NodesAt(nodes, p) == {i \in 1..Len(nodes) : nodes[i][1] = p}

\* The nodes at which recurse assigns result[prop]: the scalars (line 1023)
\* and the empty objects at a non-empty path (line 1035).
FlatWrites ==
    SelectSeq(FlatNodes,
              LAMBDA n : IsScalar(n[2]) \/ (n[1] # "" /\ IsEmptyObject(n[2])))

\* C11: flattenData writes no path twice, every value of the flat record is
\* a scalar or an empty-container sentinel, and the paths are 'prefix.key'
\* for object nesting (the bare key at the root) and 'prefix[i]', zero-based,
\* for array elements.
C11_FlattenNoPathTwice ==
    flatPc = "done" =>
        /\ \A i, j \in 1..Len(FlatWrites) :
              i # j => FlatWrites[i][1] # FlatWrites[j][1]
        /\ \A k \in 1..Len(flatResult) :
              \/ IsScalar(flatResult[k][2])
              \/ IsEmptyArray(flatResult[k][2])
              \/ IsEmptyObject(flatResult[k][2])
        /\ {flatResult[k][1] : k \in 1..Len(flatResult)}
              = {FlatWrites[i][1] : i \in 1..Len(FlatWrites)}

\* C12: an empty array at a non-empty path is recorded as path -> [] in the
\* flat record.
C12_EmptyArrayRecorded ==
    flatPc = "done" =>
        \A i \in 1..Len(FlatNodes) :
            (IsEmptyArray(FlatNodes[i][2]) /\ FlatNodes[i][1] # "") =>
                /\ MapHas(flatResult, FlatNodes[i][1])
                /\ IsEmptyArray(MapGet(flatResult, FlatNodes[i][1]))

\* C13: an empty object at a non-empty path is recorded as path -> {} in the
\* flat record, and an empty object at the root gives an empty flat record.
C13_EmptyObjectRecorded ==
    flatPc = "done" =>
        /\ \A i \in 1..Len(FlatWrites) :
              IsEmptyObject(FlatWrites[i][2]) =>
                  /\ MapHas(flatResult, FlatWrites[i][1])
                  /\ IsEmptyObject(MapGet(flatResult, FlatWrites[i][1]))
        /\ IsEmptyObject(flatArg) => flatResult = <<>>

\* A row with an empty object below an array or an object, flattened next to
\* a scalar entry.
C13_Witness ==
    /\ flatPc = "done"
    /\ Len(flatResult) >= 2
    /\ \E k \in 1..Len(flatResult) :
          /\ IsEmptyObject(flatResult[k][2])
          /\ flatResult[k][1] \in {"a[1]", "a.c"}
          /\ \E i \in 1..Len(FlatNodes) :
                FlatNodes[i][1] = flatResult[k][1] /\ IsEmptyObject(FlatNodes[i][2])

\* The root is an empty object and the flat record is empty.
C13_WitnessRoot ==
    flatPc = "done" /\ IsEmptyObject(flatArg) /\ flatResult = <<>>

(***************************************************************************)
(* Sentinels in the statistics (DBDeltaChart derivation).                  *)
(***************************************************************************)

\* No bucket of a distribution is keyed by an empty-container sentinel.
NoSentinelBucket(distribution) ==
    \A k \in 1..Len(distribution) :
        \A b \in 1..Len(distribution[k][2]) : IsScalar(distribution[k][2][b][1])

\* propertyOccurences counts every record that has the path, whatever the
\* value.
CountsEveryRecord(propertyOccurences, flat) ==
    \A p \in PathsIn(flat) :
        MapGetOr(propertyOccurences, p, 0) = Cardinality(RecordsWith(flat, p))

\* C14: a sentinel value counts toward propertyOccurences of its path but
\* contributes no bucket to the value distribution, so it cannot raise the
\* distinct-value count that isHighCardinality reads.
C14_SentinelsNotBucketed ==
    /\ CountsEveryRecord(memoLocals.outlierPropertyOccurences, OutlierFlat)
    /\ CountsEveryRecord(memoLocals.inlierPropertyOccurences, InlierFlat)
    /\ NoSentinelBucket(memo.outlierValueOccurences)
    /\ NoSentinelBucket(memo.inlierValueOccurences)

(***************************************************************************)
(* flattenedKeyToSqlExpression on its own.  A key is built from a column   *)
(* name, an index and a sub-key in one of the forms                        *)
(*   bare  name            dot       name.rest      dotEmpty  name.        *)
(*   index name[i]         indexDot  name[i].rest   indexEnd  name[i].     *)
(* and translated against one of the column lists of SqlMetas.             *)
(***************************************************************************)
SqlMaxIndex == 10

SqlNames == {"A", "A.b", "Ev.Attrs", "Ev.Name", "TraceId", "Unknown"}
SqlRests == {"k", "b.c", "b[0].c"}
SqlIndices == {NumToString(i) : i \in 0..SqlMaxIndex} \cup {"007", "99"}

SqlKeyParams ==
    [form : {"bare", "dotEmpty"}, name : SqlNames, index : {""}, rest : {""}]
        \cup [form : {"dot"}, name : SqlNames, index : {""}, rest : SqlRests]
        \cup [form : {"index", "indexEnd"}, name : SqlNames,
              index : SqlIndices, rest : {""}]
        \cup [form : {"indexDot"}, name : SqlNames,
              index : SqlIndices, rest : SqlRests]

SqlKeyOf(p) ==
    CASE p.form = "bare" -> p.name
      [] p.form = "dot" -> p.name \o "." \o p.rest
      [] p.form = "dotEmpty" -> p.name \o "."
      [] p.form = "index" -> p.name \o "[" \o p.index \o "]"
      [] p.form = "indexEnd" -> p.name \o "[" \o p.index \o "]."
      [] p.form = "indexDot" -> p.name \o "[" \o p.index \o "]." \o p.rest

Col(name, type) == [name |-> name, type |-> type]

SqlMetas ==
    { <<>>,
      <<Col("TraceId", "String"),
        Col("A", "Map(String, String)"),
        Col("Ev.Name", "Array(String)"),
        Col("Ev.Attrs", "Array(Map(String, String))")>>,
      <<Col("A", "Map(String, String)"), Col("A.b", "Map(String, String)")>>,
      <<Col("A.b", "Map(String, String)"), Col("A", "Map(String, String)")>>,
      <<Col("A", "Map(String, String)"), Col("A.b", "Array(Map(String, String))")>>,
      <<Col("A.b", "Array(Map(String, String))"), Col("A", "Map(String, String)")>>,
      <<Col("A", "LowCardinality(Map(String, String))")>>,
      <<Col("A", "Nullable(LowCardinality(Map(String, String)))")>>,
      <<Col("A", "Tuple(String, String)"), Col("Ev.Attrs", "Mapping")>>,
      <<Col("A", "Array(String)"),
        Col("Ev.Attrs", "LowCardinality(Array(Map(String, String)))")>>,
      <<Col("A", "String"), Col("Ev.Attrs", "Array(Array(Map(String, String)))")>>,
      <<Col("Ev.Attrs", "Array(Map(String, String))"),
        Col("Ev.Attrs", "Map(String, String)")>> }

SqlInit ==
    /\ sqlParams \in SqlKeyParams
    /\ \E columnMeta \in SqlMetas :
          sqlArgs = [key |-> SqlKeyOf(sqlParams), columnMeta |-> columnMeta]
    /\ sqlResult = ""
    /\ sqlPc = "call"
    /\ TopNIdle /\ HCIdle /\ DeltaIdle /\ FlatIdle /\ ClsIdle /\ AppIdle

CallFlattenedKeyToSqlExpression ==
    /\ sqlPc = "call"
    /\ sqlResult' = flattenedKeyToSqlExpression(sqlArgs.key, sqlArgs.columnMeta)
    /\ sqlPc' = "done"
    /\ UNCHANGED <<sqlArgs, sqlParams, topnVars, hcVars, deltaVars, flatVars, clsVars, appVars>>

SqlNext == CallFlattenedKeyToSqlExpression

SqlSpec == SqlInit /\ [][SqlNext]_vars

(***************************************************************************)
(* Properties of flattenedKeyToSqlExpression.  The shapes are stated on    *)
(* the text of the key, and the kind of a column on its type string.       *)
(***************************************************************************)

\* The kind of a column type once the Nullable/LowCardinality wrappers are
\* taken off.
SqlTypeKind(type) ==
    IF type \in {"Map(String, String)", "LowCardinality(Map(String, String))",
                 "Nullable(LowCardinality(Map(String, String)))",
                 "Map(LowCardinality(String), String)"}
    THEN "map"
    ELSE IF type \in {"Array(Map(String, String))",
                      "LowCardinality(Array(Map(String, String)))"}
    THEN "arraymap"
    ELSE "other"

AllDigits(str) == Len(str) > 0 /\ \A i \in 1..Len(str) : IsDigit(CharAt(str, i))

\* The <<digits, rest>> with key = name[digits].rest and rest non-empty.
ArrayMapParts(key, name) ==
    {<<SubSeq(key, Len(name) + 2, e), SubSeq(key, e + 3, Len(key))>> :
        e \in {e \in (Len(name) + 2)..(Len(key) - 3) :
                  /\ StartsWith(key, name \o "[")
                  /\ AllDigits(SubSeq(key, Len(name) + 2, e))
                  /\ SubSeq(key, e + 1, e + 2) = "]."}}

\* The number a string of digits denotes: leading zeros, then its decimal
\* form.
DecimalValue(digits) ==
    CHOOSE n \in 0..(10 * SqlMaxIndex) :
        \E z \in 0..Len(digits) :
            /\ \A i \in 1..z : CharAt(digits, i) = "0"
            /\ SubSeq(digits, z + 1, Len(digits)) = NumToString(n)

\* Column col has the shape of the key.
SqlMatches(col, key) ==
    \/ SqlTypeKind(col.type) = "map" /\ StartsWith(key, col.name \o ".")
    \/ SqlTypeKind(col.type) = "arraymap" /\ ArrayMapParts(key, col.name) # {}

\* The expression for the key as an access to column col, which matches it.
SqlTranslation(col, key) ==
    IF SqlTypeKind(col.type) = "map"
    THEN LET remainder ==
                CHOOSE r \in {SubSeq(key, i, Len(key)) : i \in 1..(Len(key) + 1)} :
                    key = col.name \o "." \o r
         IN  col.name \o "['" \o remainder \o "']"
    ELSE LET parts == CHOOSE dr \in ArrayMapParts(key, col.name) : TRUE
         IN  col.name \o "[" \o NumToString(DecimalValue(parts[1]) + 1)
                 \o "]['" \o parts[2] \o "']"

\* The columns of the call that match its key, by position.
SqlMatching ==
    {c \in 1..Len(sqlArgs.columnMeta) :
        SqlMatches(sqlArgs.columnMeta[c], sqlArgs.key)}

SqlFirstMatch == CHOOSE c \in SqlMatching : \A d \in SqlMatching : c <= d

C17_UnmatchedKeyUnchanged ==
    sqlPc = "done" => (SqlMatching = {} => sqlResult = sqlArgs.key)

\* An Array(Map) column addressed without a sub-key, next to a Map column.
C17_Witness ==
    /\ sqlPc = "done"
    /\ sqlParams.form \in {"index", "indexEnd"}
    /\ \E c \in 1..Len(sqlArgs.columnMeta) :
          /\ sqlArgs.columnMeta[c].name = sqlParams.name
          /\ SqlTypeKind(sqlArgs.columnMeta[c].type) = "arraymap"
    /\ SqlMatching = {}
    /\ sqlResult = sqlArgs.key

\* C18: the result is the translation by the first column, in columnMeta
\* order, that matches the key; it is a function of the key and columnMeta.
C18_FirstMatchWins ==
    sqlPc = "done" =>
        (SqlMatching # {} =>
            sqlResult = SqlTranslation(sqlArgs.columnMeta[SqlFirstMatch], sqlArgs.key))

\* Two columns match the key and would translate it differently.
C18_Witness ==
    /\ sqlPc = "done"
    /\ \E c, d \in SqlMatching :
          /\ c < d
          /\ SqlTranslation(sqlArgs.columnMeta[c], sqlArgs.key)
                # SqlTranslation(sqlArgs.columnMeta[d], sqlArgs.key)
          /\ sqlResult = SqlTranslation(sqlArgs.columnMeta[c], sqlArgs.key)

(***************************************************************************)
(* The field classifier on its own.  A key is a column name, alone or      *)
(* followed by an index and possibly more; columnMeta holds one other      *)
(* column, and possibly a column of one of the names with one of the       *)
(* types.  The statistics of the key are absent, skewed to one value or    *)
(* all distinct.                                                           *)
(***************************************************************************)
ClsMaxIndex == 1

ClsNames ==
    {"TraceId", "SpanID", "Links.TraceId", "MyMapId", "Idx", "id",
     "Timestamp", "Ev.Timestamp", "Ev.Name"}
ClsIndices == {NumToString(i) : i \in 0..ClsMaxIndex} \cup {"23"}

ClsTypes ==
    {"String", "LowCardinality(String)", "Nullable(LowCardinality(String))",
     "Array(String)", "Array(LowCardinality(String))",
     "Map(String, String)", "Array(Map(String, String))", "UInt64",
     "DateTime64(9)", "Nullable(DateTime64(9))", "Array(DateTime)",
     "Array(DateTime64(9))", "Array(DateTime64(3))",
     "Array(DateTime64(9, 'UTC'))", "Array(Nullable(DateTime64(6)))"}

ClsKeyParams ==
    [form : {"bare"}, name : ClsNames, index : {""}]
        \cup [form : {"index", "indexDot", "indexIndex"}, name : ClsNames,
              index : ClsIndices]
        \cup [form : {"indexAlpha"}, name : ClsNames, index : {"x"}]

ClsKeyOf(p) ==
    CASE p.form = "bare" -> p.name
      [] p.form \in {"index", "indexAlpha"} -> p.name \o "[" \o p.index \o "]"
      [] p.form = "indexDot" -> p.name \o "[" \o p.index \o "].k"
      [] p.form = "indexIndex" -> p.name \o "[" \o p.index \o "][0]"

ClsMetas ==
    {<<>>, <<Col("Other", "String")>>}
        \cup {<<Col("Other", "String"), Col(name, type)>> :
                name \in ClsNames, type \in ClsTypes}

\* The statistics of the two groups for the key.
ClsStatistics(key) ==
    { [outlierValueOccurences |-> <<>>, inlierValueOccurences |-> <<>>,
       outlierPropertyOccurences |-> <<>>, inlierPropertyOccurences |-> <<>>],
      [outlierValueOccurences |-> << <<key, << <<Str("a"), Frac(100, 1)>> >> >> >>,
       inlierValueOccurences |-> << <<key, << <<Str("b"), Frac(100, 1)>> >> >> >>,
       outlierPropertyOccurences |-> << <<key, HCMaxTotal>> >>,
       inlierPropertyOccurences |-> << <<key, HCMaxTotal>> >>],
      [outlierValueOccurences |-> << <<key, HCValuesMap(HCMaxTotal)>> >>,
       inlierValueOccurences |-> << <<key, HCValuesMap(HCMaxTotal)>> >>,
       outlierPropertyOccurences |-> << <<key, HCMaxTotal>> >>,
       inlierPropertyOccurences |-> << <<key, HCMaxTotal>> >>] }

ClsInit ==
    /\ clsParams \in ClsKeyParams
    /\ \E columnMeta \in ClsMetas, stats \in ClsStatistics(ClsKeyOf(clsParams)) :
          clsArgs = [key |-> ClsKeyOf(clsParams),
                     columnMeta |-> columnMeta,
                     outlierValueOccurences |-> stats.outlierValueOccurences,
                     inlierValueOccurences |-> stats.inlierValueOccurences,
                     outlierPropertyOccurences |-> stats.outlierPropertyOccurences,
                     inlierPropertyOccurences |-> stats.inlierPropertyOccurences]
    /\ clsResult = <<>>
    /\ clsPc = "call"
    /\ TopNIdle /\ HCIdle /\ DeltaIdle /\ FlatIdle /\ SqlIdle /\ AppIdle

\* The classifier functions on the key, and the body of the forEach callback
\* that splits the properties, on lists that are still empty.
ClassifyKey ==
    /\ clsPc = "call"
    /\ clsResult' =
          [isIdField |-> isIdField(clsArgs.key, clsArgs.columnMeta),
           isTimestampArrayField |->
               isTimestampArrayField(clsArgs.key, clsArgs.columnMeta),
           isDenylisted |-> isDenylisted(clsArgs.key, clsArgs.columnMeta),
           split |-> SplitStep([visibleProperties |-> <<>>,
                                hiddenProperties |-> <<>>],
                               clsArgs.key, clsArgs)]
    /\ clsPc' = "done"
    /\ UNCHANGED <<clsArgs, clsParams, topnVars, hcVars, deltaVars, flatVars, sqlVars, appVars>>

ClsNext == ClassifyKey

ClsSpec == ClsInit /\ [][ClsNext]_vars

(***************************************************************************)
(* Properties of the classifier, stated on the parts the key was built     *)
(* from and on the type strings.                                           *)
(***************************************************************************)

\* The key is a column name, alone or with one trailing [N].
ClsPlainOrIndexed == clsParams.form \in {"bare", "index"}

\* The names that end in Id or ID.
ClsIdNames == {"TraceId", "SpanID", "Links.TraceId", "MyMapId"}

\* The column of the key's name is in columnMeta.
ClsColumnExists ==
    \E c \in 1..Len(clsArgs.columnMeta) : clsArgs.columnMeta[c].name = clsParams.name

\* Its type.
ClsColumnType ==
    clsArgs.columnMeta[CHOOSE c \in 1..Len(clsArgs.columnMeta) :
                          clsArgs.columnMeta[c].name = clsParams.name].type

ClsStringTypes ==
    {"String", "LowCardinality(String)", "Nullable(LowCardinality(String))",
     "Array(String)", "Array(LowCardinality(String))"}

ClsTimestampArrayTypes ==
    {"Array(DateTime64(9))", "Array(DateTime64(3))",
     "Array(DateTime64(9, 'UTC'))", "Array(Nullable(DateTime64(6)))"}

\* C19: isIdField is true exactly for a bare or once-indexed column name
\* that ends in Id or ID, of a column in columnMeta whose unwrapped type is
\* String or Array(String); it does not read the statistics, and a key it
\* accepts goes to hiddenProperties whatever they are.
C19_IdFieldExactly ==
    clsPc = "done" =>
        /\ clsResult.isIdField <=>
              /\ ClsPlainOrIndexed
              /\ clsParams.name \in ClsIdNames
              /\ ClsColumnExists
              /\ ClsColumnType \in ClsStringTypes
        /\ clsResult.isIdField =>
              /\ clsResult.split.hiddenProperties = <<clsArgs.key>>
              /\ clsResult.split.visibleProperties = <<>>

\* An indexed Array(String) ID column whose values are skewed to one value
\* per group: not of high cardinality, and hidden.
C19_Witness ==
    /\ clsPc = "done"
    /\ clsArgs.key = "Links.TraceId[1]"
    /\ ClsColumnExists
    /\ ClsColumnType = "Array(String)"
    /\ MapHas(clsArgs.outlierValueOccurences, clsArgs.key)
    /\ MapSize(MapGet(clsArgs.outlierValueOccurences, clsArgs.key)) = 1
    /\ clsResult.isIdField
    /\ clsResult.split.hiddenProperties = <<clsArgs.key>>

\* C20: isTimestampArrayField is true exactly for a bare or once-indexed
\* column name of a column in columnMeta whose unwrapped type is
\* Array(DateTime64(...)), whatever the parameters of DateTime64.
C20_TimestampArrayExactly ==
    clsPc = "done" =>
        (clsResult.isTimestampArrayField <=>
            /\ ClsPlainOrIndexed
            /\ ClsColumnExists
            /\ ClsColumnType \in ClsTimestampArrayTypes)

\* An element of an Array(DateTime64) column with a timezone parameter.
C20_Witness ==
    /\ clsPc = "done"
    /\ clsArgs.key = "Ev.Timestamp[23]"
    /\ ClsColumnExists
    /\ ClsColumnType = "Array(DateTime64(9, 'UTC'))"
    /\ clsResult.isTimestampArrayField

(***************************************************************************)
(* The derivation with a group missing.                                    *)
(***************************************************************************)

\* The group has no rows: its result is absent or empty.
NoRows(result) == RowsOf(result) = <<>>

\* The column metadata the responses carry: that of the outlier response,
\* else that of the inlier response, else none.
ResponseMeta ==
    IF outlierData.loaded /\ outlierData.hasMeta THEN TraceMeta
    ELSE IF inlierData.loaded /\ inlierData.hasMeta THEN TraceMeta
    ELSE <<>>

\* The number of distinct values the records of a group hold at p.
DistinctAt(flat, p) ==
    Cardinality({MapGet(flat[i], p) : i \in RecordsWith(flat, p)})

\* The cardinality test on the records of one group alone: more than 20
\* records with p and more than 0.9 distinct values per record.
HighCardinalityAlone(flat, p) ==
    /\ Cardinality(RecordsWith(flat, p)) > 20
    /\ 10 * DistinctAt(flat, p) > 9 * Cardinality(RecordsWith(flat, p))

\* C21: with the outlier data absent or empty, the inlier data absent or
\* empty, or both, and with or without column metadata, the statistics of
\* the missing group are empty (zero occurrences everywhere) and
\* visibleProperties and hiddenProperties are well defined: both empty when
\* both groups are empty, otherwise the properties of the group that has
\* rows, split by the denylist and that group's own cardinality.
C21_MissingGroupIsZero ==
    /\ NoRows(outlierData) =>
          /\ memo.outlierValueOccurences = <<>>
          /\ memoLocals.outlierPropertyOccurences = <<>>
    /\ NoRows(inlierData) =>
          /\ memo.inlierValueOccurences = <<>>
          /\ memoLocals.inlierPropertyOccurences = <<>>
    /\ (NoRows(outlierData) /\ NoRows(inlierData)) =>
          /\ memo.visibleProperties = <<>>
          /\ memo.hiddenProperties = <<>>
    /\ memo.columnMeta = ResponseMeta
    /\ (NoRows(outlierData) \/ NoRows(inlierData)) =>
          LET flat == IF NoRows(outlierData) THEN InlierFlat ELSE OutlierFlat
          IN  /\ SetOf(memo.visibleProperties) \cup SetOf(memo.hiddenProperties)
                    = DistributionKeys(flat)
              /\ \A p \in DistributionKeys(flat) :
                    p \in SetOf(memo.hiddenProperties) <=>
                        \/ isDenylisted(p, ResponseMeta)
                        \/ HighCardinalityAlone(flat, p)

\* The inlier rows arrived first and carry the metadata; the outlier fetch
\* is still pending, and the properties are split by the denylist.
C21_Witness ==
    /\ ~outlierData.loaded
    /\ inlierData.loaded /\ inlierData.hasMeta
    /\ memo.visibleProperties # <<>>
    /\ memo.hiddenProperties # <<>>

\* Both fetches settled without rows and without metadata.
C21_WitnessBothEmpty ==
    /\ outlierData.loaded /\ ~outlierData.hasMeta /\ NoRows(outlierData)
    /\ inlierData.loaded /\ ~inlierData.hasMeta /\ NoRows(inlierData)
    /\ memo.visibleProperties = <<>>
    /\ memo.hiddenProperties = <<>>

(***************************************************************************)
(* The charts of DBDeltaChart and their filter popovers.  Every property   *)
(* of the memo is drawn by a PropertyComparisonChart of its own: the       *)
(* container is taken large enough for one page, so totalPages <= 1 and    *)
(* the lower-priority fields are shown.  clickedBar maps the name of each  *)
(* mounted chart to its clickedBar state; the screen coordinates kept with *)
(* the value are left out.                                                 *)
(***************************************************************************)
MaxEmitted == 1

\* clickedBar === null
NoBar == [open |-> FALSE]

\* { value, clientX, clientY }
Bar(value) == [open |-> TRUE, value |-> value]

\* The keys of the charts the component renders.
ChartKeys(m) == SetOf(m.visibleProperties) \cup SetOf(m.hiddenProperties)

\* The least common multiple of the denominators of the rows.  The bound
\* variables d and e hold the multiples computed so far.
RECURSIVE CommonDenominator(_)
CommonDenominator(rows) ==
    IF rows = <<>> THEN 1
    ELSE LET o == rows[1].outlierCount.den
             i == rows[1].inlierCount.den
         IN  CHOOSE s \in {(e * i) \div GCD(e, i) :
                              e \in {(d * o) \div GCD(d, o) :
                                        d \in {CommonDenominator(Tail(rows))}}} : TRUE

\* chartData of the chart `name`.  The percentages are held as fractions;
\* the rows get the same numbers as integers over their common denominator,
\* which keeps every comparison of the aggregation.
ChartRows(m, name) ==
    CHOOSE rows \in
        {applyTopNAggregation(Tabulate(
            [n \in 1..Len(mergedValueStatistics) |->
                LET row == mergedValueStatistics[n]
                IN  [name |-> row.name,
                     outlierCount |-> row.outlierCount.num * (scale \div row.outlierCount.den),
                     inlierCount |-> row.inlierCount.num * (scale \div row.inlierCount.den)]])) :
            <<mergedValueStatistics, scale>> \in
                {<<merged, CommonDenominator(merged)>> :
                    merged \in {mergeValueStatisticsMaps(
                        MapGetOr(m.outlierValueOccurences, name, <<>>),
                        MapGetOr(m.inlierValueOccurences, name, <<>>))}}} : TRUE

\* The `data` argument the BarChart passes to onClick: a click away from
\* every bar has no active payload, a click on a bar carries the bar's row
\* and its label, the row's name.
ChartEvents(rows) ==
    {[activePayload |-> <<>>, activeLabel |-> Str("")]}
        \cup {[activePayload |-> <<[payload |-> rows[i]]>>,
               activeLabel |-> IF IsOther(rows[i]) THEN Str(rows[i].name)
                               ELSE rows[i].name] : i \in 1..Len(rows)}

\* Mutant: the synthetic row is not told apart.
handleChartClick_noOther(event) ==
    IF Len(event.activePayload) = 0 THEN NoBar
    ELSE Bar(ToStr(event.activeLabel))

\* The value handleChartClick passes to setClickedBar.
handleChartClick(event) ==
    IF Len(event.activePayload) = 0 THEN NoBar
    ELSE IF IsOther(event.activePayload[1].payload) THEN NoBar
    ELSE Bar(ToStr(event.activeLabel))

\* The caller's onAddFilter before any call, and after a call with args.
NoCalls == [count |-> 0, last |-> <<>>]
Called(calls, args) == [count |-> calls.count + 1, last |-> <<args>>]

\* Mutant: the flattened key is handed over as it is.
handleAddFilter_raw(property, value, action, supplied, columnMeta, calls) ==
    IF ~supplied THEN calls
    ELSE Called(calls, [property |-> property, value |-> value, action |-> action])

\* handleAddFilter: the calls of the caller's onAddFilter after it ran.
handleAddFilter(property, value, action, supplied, columnMeta, calls) ==
    IF ~supplied THEN calls
    ELSE Called(calls, [property |-> flattenedKeyToSqlExpression(property, columnMeta),
                        value |-> value,
                        action |-> action])

\* The clickedBar states after a render with memo m: a chart keeps its state
\* while its key stays, a new chart starts with null.
Mounted(m, before) ==
    [name \in ChartKeys(m) |->
        IF name \in DOMAIN before THEN before[name] ELSE NoBar]

\* The chartData every chart computes in a render with memo m.
Charts(m) == [name \in ChartKeys(m) |-> ChartRows(m, name)]

\* The query results of this specification: rows without metadata, rows of
\* another shape with metadata, and metadata alone.
UiResults ==
    <<[loaded |-> TRUE, hasMeta |-> FALSE, meta |-> <<>>,
       data |-> GroupRows([n |-> MAX_CHART_VALUES + 1, kind |-> "base"])],
      [loaded |-> TRUE, hasMeta |-> TRUE, meta |-> TraceMeta,
       data |-> GroupRows([n |-> MIN_PROPERTY_OCCURENCES, kind |-> "skew"])],
      [loaded |-> TRUE, hasMeta |-> TRUE, meta |-> TraceMeta, data |-> <<>>]>>

\* What the two queries can hold: nothing yet, or one of the results.
UiOutcomes == <<Undefined>> \o UiResults

\* The render of every pair of outcomes, computed once: the memo, the
\* callback's other locals, and the chartData of the charts.
UiRenders ==
    Tabulate([k \in 1..(Len(UiOutcomes) * Len(UiOutcomes)) |->
        LET outlier == UiOutcomes[((k - 1) \div Len(UiOutcomes)) + 1]
            inlier == UiOutcomes[((k - 1) % Len(UiOutcomes)) + 1]
        IN  CHOOSE r \in
                {[memo |-> m, memoLocals |-> DeltaKeptLocals(l), charts |-> Charts(m)] :
                    <<l, m>> \in {<<locals, DeltaMemo(locals)>> :
                                    locals \in {DeltaLocals(outlier, inlier)}}} : TRUE])

\* A render with the two query results, charts included.
UiRender(outlier, inlier) ==
    LET r == renders[(IndexIn(UiOutcomes, outlier) - 1) * Len(UiOutcomes)
                            + IndexIn(UiOutcomes, inlier)]
    IN  /\ memo' = r.memo
        /\ memoLocals' = r.memoLocals
        /\ charts' = r.charts
        /\ clickedBar' = Mounted(r.memo, clickedBar)

UiInit ==
    /\ outlierData = Undefined
    /\ inlierData = Undefined
    /\ memo = DeltaMemo(DeltaLocals(Undefined, Undefined))
    /\ memoLocals = DeltaKeptLocals(DeltaLocals(Undefined, Undefined))
    /\ onAddFilter \in BOOLEAN
    /\ charts = Charts(memo)
    /\ renders = UiRenders
    /\ clickedBar = Mounted(memo, <<>>)
    /\ emitted = NoCalls
    /\ TopNIdle /\ HCIdle /\ FlatIdle /\ SqlIdle /\ ClsIdle
    /\ ScoreIdle /\ RoleIdle /\ EncIdle /\ PrefIdle /\ OidcIdle

\* The outlier query settles and the charts render again.
UiOutlierDataArrives ==
    \E result \in SetOf(UiResults) :
        /\ ~outlierData.loaded
        /\ outlierData' = result
        /\ UiRender(result, inlierData)
        /\ UNCHANGED <<inlierData, onAddFilter, renders, emitted>>
        /\ UNCHANGED uiOtherVars

\* The inlier query settles and the charts render again.
UiInlierDataArrives ==
    \E result \in SetOf(UiResults) :
        /\ ~inlierData.loaded
        /\ inlierData' = result
        /\ UiRender(outlierData, result)
        /\ UNCHANGED <<outlierData, onAddFilter, renders, emitted>>
        /\ UNCHANGED uiOtherVars

\* A click inside the chart `name`.  Its mousedown lands outside every other
\* chart and popover, so handleClickOutside closes those; then the chart's
\* onClick runs handleChartClick.
ChartClick ==
    \E name \in DOMAIN clickedBar :
        \E event \in ChartEvents(charts[name]) :
            /\ clickedBar' = [other \in DOMAIN clickedBar |->
                                IF other = name THEN handleChartClick(event)
                                ELSE NoBar]
            /\ UNCHANGED <<deltaVars, onAddFilter, charts, renders, emitted>>
            /\ UNCHANGED uiOtherVars

\* A click on "Filter for this value" or "Exclude this value" in the open
\* popover of the chart `name`; the buttons exist when the chart got an
\* onAddFilter prop, which is handleAddFilter when the caller passed one.
FilterClick ==
    \E name \in DOMAIN clickedBar, action \in {"include", "exclude"} :
        /\ clickedBar[name].open
        /\ onAddFilter
        /\ emitted.count < MaxEmitted
        /\ emitted' = handleAddFilter(name, clickedBar[name].value, action,
                                      onAddFilter, memo.columnMeta, emitted)
        /\ clickedBar' = [other \in DOMAIN clickedBar |-> NoBar]
        /\ UNCHANGED <<deltaVars, onAddFilter, charts, renders>>
        /\ UNCHANGED uiOtherVars

\* A mousedown outside the chart and its popover, or a scroll, while a
\* popover is open.
DismissPopover ==
    /\ \E name \in DOMAIN clickedBar : clickedBar[name].open
    /\ clickedBar' = [name \in DOMAIN clickedBar |-> NoBar]
    /\ UNCHANGED <<deltaVars, onAddFilter, charts, renders, emitted>>
    /\ UNCHANGED uiOtherVars

UiNext ==
    \/ UiOutlierDataArrives
    \/ UiInlierDataArrives
    \/ ChartClick
    \/ FilterClick
    \/ DismissPopover

UiSpec == UiInit /\ [][UiNext]_vars

(***************************************************************************)
(* Properties of the filter requests.  The expected property is stated on  *)
(* the text of the key with SqlMatches and SqlTranslation.                 *)
(***************************************************************************)
FilterActions == {"include", "exclude"}

\* The expression for a key under the metadata: the access to the first
\* column that has the key's shape, or the key when there is none.
ExpectedProperty(key, columnMeta) ==
    LET matching == {c \in 1..Len(columnMeta) : SqlMatches(columnMeta[c], key)}
    IN  IF matching = {} THEN key
        ELSE SqlTranslation(
                columnMeta[CHOOSE c \in matching : \A d \in matching : c <= d], key)

\* C22: every call of the caller's onAddFilter is made for a chart with an
\* open popover, carries the chart's flattened key translated with the
\* column metadata of the current memo, the popover's value and the
\* button's action; and the caller receives no call when it passed no
\* onAddFilter.
C22_FilterTranslated ==
    /\ [](~onAddFilter => emitted = NoCalls)
    /\ [][emitted' # emitted =>
            /\ onAddFilter
            /\ \E name \in DOMAIN clickedBar, action \in FilterActions :
                  /\ clickedBar[name].open
                  /\ emitted' =
                        [count |-> emitted.count + 1,
                         last |-> <<[property |-> ExpectedProperty(name, memo.columnMeta),
                                     value |-> clickedBar[name].value,
                                     action |-> action]>>]]_vars

\* A request for attr.k went out as attr['k'], with the metadata taken from
\* the inlier result because the outlier result has none.
C22_Witness ==
    /\ outlierData.loaded /\ ~outlierData.hasMeta
    /\ inlierData.loaded /\ inlierData.hasMeta
    /\ emitted.count = 1
    /\ emitted.last = <<[property |-> "attr['k']", value |-> "v1", action |-> "exclude"]>>

\* No call reached a component that was given no onAddFilter, although a
\* popover is open.
C22_WitnessNoCallback ==
    /\ ~onAddFilter
    /\ \E name \in DOMAIN clickedBar : clickedBar[name].open
    /\ emitted = NoCalls

\* The rows of a chart that stand for values, and the synthetic rows.
ValueRows(rows) == {i \in 1..Len(rows) : ~IsOther(rows[i])}
OtherRows(rows) == {i \in 1..Len(rows) : IsOther(rows[i])}

\* The names of the synthetic rows of the charts of any render.
OtherRowNames ==
    UNION {UNION {{r.charts[name][i].name : i \in OtherRows(r.charts[name])} :
                    name \in DOMAIN r.charts} :
            r \in SetOf(UiRenders)}

MaxScoreValues == 3

\* a - b
FracSub(a, b) == Frac(a.num * b.den - b.num * a.den, a.den * b.den)

\* The percentages of a distribution, in the order of its entries.
ScorePercentages(distribution) ==
    Tabulate([k \in 1..Len(distribution) |-> distribution[k][2]])

\* Math.max(...percentages) of a non-empty list.
MaxPercentage(percentages) ==
    LET all == SetOf(percentages)
    IN  CHOOSE p \in all : \A q \in all : ~FracLess(p, q)

\* Math.min(...percentages) of a non-empty list.
MinPercentage(percentages) ==
    LET all == SetOf(percentages)
    IN  CHOOSE p \in all : \A q \in all : ~FracLess(q, p)

\* sum(percentages) / n
MeanPercentage(percentages) ==
    LET sum == SumPercentages(Tabulate([k \in 1..Len(percentages) |-> <<k, percentages[k]>>]))
    IN  Frac(sum.num, sum.den * Len(percentages))

\* Mutant: how far the mean lies above the smallest share.
computeDistributionScore_min(distribution) ==
    LET percentages == ScorePercentages(distribution)
    IN  IF Len(distribution) = 0 \/ Len(distribution) = 1 THEN Zero
        ELSE FracSub(MeanPercentage(percentages), MinPercentage(percentages))

\* n = distribution.size; 0 when n is 0 or 1; otherwise max - mean.
computeDistributionScore(distribution) ==
    LET percentages == ScorePercentages(distribution)
    IN  IF Len(distribution) = 0 \/ Len(distribution) = 1 THEN Zero
        ELSE FracSub(MaxPercentage(percentages), MeanPercentage(percentages))

\* The shares a value can have: of all rows, so they need not sum to 100.
ScoreShares ==
    {Frac(0, 1), Frac(10, 1), Frac(100, 3), Frac(40, 1), Frac(50, 1), Frac(100, 1)}

ScoreInputs ==
    UNION {{Tabulate([k \in 1..n |-> <<TopNName(k), shares[k]>>]) :
                shares \in [1..n -> ScoreShares]} : n \in 0..MaxScoreValues}

ScoreInit ==
    /\ scoreArg \in ScoreInputs
    /\ scoreResult = <<>>
    /\ scorePc = "call"
    /\ CoreIdle /\ UiIdle /\ RoleIdle /\ EncIdle /\ PrefIdle /\ OidcIdle

CallComputeDistributionScore ==
    /\ scorePc = "call"
    /\ scoreResult' = computeDistributionScore(scoreArg)
    /\ scorePc' = "done"
    /\ UNCHANGED <<scoreArg, scoreOtherVars>>

ScoreNext == CallComputeDistributionScore

ScoreSpec == ScoreInit /\ [][ScoreNext]_vars

\* The sum of the shares of scoreArg, over the denominator 3 that all the
\* shares have in common.
ScoreThirds(k) == (3 * scoreArg[k][2].num) \div scoreArg[k][2].den

RECURSIVE ScoreSumThirds(_)
ScoreSumThirds(n) == IF n = 0 THEN 0 ELSE ScoreSumThirds(n - 1) + ScoreThirds(n)

\* C23: the score is 0 for no value and for one value, 0 when all the
\* shares are equal, otherwise the largest share minus the sum of the
\* shares divided by their number, and it is never negative.
C23_DistributionScore ==
    scorePc = "done" =>
        LET n == Len(scoreArg)
        IN  /\ n <= 1 => scoreResult = Zero
            /\ (\A j, k \in 1..n : scoreArg[j][2] = scoreArg[k][2]) =>
                    scoreResult = Zero
            /\ n >= 2 =>
                    \E m \in 1..n :
                        /\ \A k \in 1..n : ScoreThirds(k) <= ScoreThirds(m)
                        /\ scoreResult.num * 3 * n
                                = (n * ScoreThirds(m) - ScoreSumThirds(n)) * scoreResult.den
            /\ scoreResult.num >= 0 /\ scoreResult.den > 0

\* Shares 40 and 10 of all rows: the score is 40 - 25 = 15.
C23_Witness ==
    /\ scorePc = "done"
    /\ scoreArg = << <<"a", Frac(40, 1)>>, <<"b", Frac(10, 1)>> >>
    /\ scoreResult = Frac(15, 1)

\* Three equal shares of a third each score 0.
C23_WitnessUniform ==
    /\ scorePc = "done"
    /\ scoreResult = Zero
    /\ scoreArg = << <<"a", Frac(100, 3)>>, <<"b", Frac(100, 3)>>, <<"c", Frac(100, 3)>> >>

(***************************************************************************)
(* OIDC role mapping.  roleMapping is a parsed JSON object: its entries    *)
(* have distinct keys and come in insertion order; a value is any string.  *)
(***************************************************************************)
MaxOidcRoles == 2
MaxRoleMappings == 2

ROLE_PRIORITY == <<"admin", "member", "viewer">>

\* hdxToKeycloak after the entries of roleMapping from position k on were
\* added to it.
RECURSIVE InvertFrom(_, _, _)
InvertFrom(roleMapping, k, hdxToKeycloak) ==
    IF k > Len(roleMapping) THEN hdxToKeycloak
    ELSE LET kcRole == roleMapping[k][1]
             hdxRole == roleMapping[k][2]
             created == IF MapHas(hdxToKeycloak, hdxRole) THEN hdxToKeycloak
                        ELSE Append(hdxToKeycloak, <<hdxRole, {}>>)
         IN  InvertFrom(roleMapping, k + 1,
                Tabulate([i \in 1..Len(created) |->
                    IF created[i][1] = hdxRole
                    THEN <<hdxRole, created[i][2] \cup {kcRole}>>
                    ELSE created[i]]))

\* The priority loop from position p of a priority list on.
RECURSIVE PriorityLoop(_, _, _, _, _)
PriorityLoop(priority, p, hdxToKeycloak, keycloakRoles, defaultRole) ==
    IF p > Len(priority) THEN defaultRole
    ELSE IF /\ MapHas(hdxToKeycloak, priority[p])
            /\ \E i \in 1..Len(keycloakRoles) :
                  keycloakRoles[i] \in MapGet(hdxToKeycloak, priority[p])
         THEN priority[p]
         ELSE PriorityLoop(priority, p + 1, hdxToKeycloak, keycloakRoles, defaultRole)

\* Mutant: the first role of the token that has a mapping decides.
mapOidcRolesToHdxRole_firstRole(keycloakRoles, roleMapping, defaultRole) ==
    LET mapped == {i \in 1..Len(keycloakRoles) :
                      /\ MapHas(roleMapping, keycloakRoles[i])
                      /\ MapGet(roleMapping, keycloakRoles[i]) \in SetOf(ROLE_PRIORITY)}
    IN  IF mapped = {} THEN defaultRole
        ELSE MapGet(roleMapping, keycloakRoles[CHOOSE i \in mapped : \A j \in mapped : i <= j])

mapOidcRolesToHdxRole(keycloakRoles, roleMapping, defaultRole) ==
    PriorityLoop(ROLE_PRIORITY, 1, InvertFrom(roleMapping, 1, <<>>),
                 keycloakRoles, defaultRole)

\* Role names of the identity provider, and the values a mapping may give
\* them: the three roles and a name that is none of them.
KeycloakRoleNames == {"dev", "ops", "guest"}
MappedRoleNames == {"admin", "member", "viewer", "owner"}

\* The arrays of at most max elements of a set.
SeqsUpTo(set, max) == UNION {[1..n -> set] : n \in 0..max}

RoleMappings ==
    {mapping \in SeqsUpTo(KeycloakRoleNames \X MappedRoleNames, MaxRoleMappings) :
        \A i, j \in 1..Len(mapping) : mapping[i][1] = mapping[j][1] => i = j}

RoleInit ==
    /\ roleArgs \in [keycloakRoles : SeqsUpTo(KeycloakRoleNames, MaxOidcRoles),
                     roleMapping : RoleMappings,
                     defaultRole : SetOf(ROLE_PRIORITY)]
    /\ roleResult = ""
    /\ rolePc = "call"
    /\ CoreIdle /\ UiIdle /\ ScoreIdle /\ EncIdle /\ PrefIdle /\ OidcIdle

CallMapOidcRolesToHdxRole ==
    /\ rolePc = "call"
    /\ roleResult' = mapOidcRolesToHdxRole(roleArgs.keycloakRoles,
                                           roleArgs.roleMapping,
                                           roleArgs.defaultRole)
    /\ rolePc' = "done"
    /\ UNCHANGED <<roleArgs, roleOtherVars>>

RoleNext == CallMapOidcRolesToHdxRole

RoleSpec == RoleInit /\ [][RoleNext]_vars

\* The roles the mapping of the call gives to at least one role of the token.
GrantedRoles ==
    {roleArgs.roleMapping[k][2] :
        k \in {k \in 1..Len(roleArgs.roleMapping) :
                  roleArgs.roleMapping[k][1] \in SetOf(roleArgs.keycloakRoles)}}

\* C24: the result is admin when admin is granted, else member when member
\* is granted, else viewer when viewer is granted, else defaultRole; being
\* stated on the sets of roles and of mapping entries, it depends on no order.
C24_HighestPrivilegeRole ==
    rolePc = "done" =>
        roleResult =
            IF "admin" \in GrantedRoles THEN "admin"
            ELSE IF "member" \in GrantedRoles THEN "member"
            ELSE IF "viewer" \in GrantedRoles THEN "viewer"
            ELSE roleArgs.defaultRole

\* The token lists the viewer-mapped role before the admin-mapped one, and
\* the mapping lists them in the same order: the result is admin.
C24_Witness ==
    /\ rolePc = "done"
    /\ roleArgs.keycloakRoles = <<"guest", "ops">>
    /\ roleArgs.roleMapping = << <<"guest", "viewer">>, <<"ops", "admin">> >>
    /\ roleResult = "admin"

\* The only mapped role of the token maps to a name that is no role: the
\* default is returned.
C24_WitnessDefault ==
    /\ rolePc = "done"
    /\ roleArgs.keycloakRoles = <<"dev">>
    /\ roleArgs.roleMapping = << <<"dev", "owner">>, <<"ops", "admin">> >>
    /\ roleArgs.defaultRole = "viewer"
    /\ roleResult = "viewer"

(***************************************************************************)
(* parseAsStringEncoded.  A string is the sequence of its UTF-16 code      *)
(* units, as numbers.  A call that throws has the outcome Thrown, a call   *)
(* that returns v the outcome Returned(v).                                 *)
(***************************************************************************)
MaxStringLen == 3
MaxEncodedLen == 4

Thrown == [threw |-> TRUE]
Returned(value) == [threw |-> FALSE, value |-> value]

\* Code units by their characters.
ChPercent == 37
ChSpace == 32
ChPlus == 43

\* A-Z a-z 0-9 - _ . ! ~ * ' ( ): the characters encodeURIComponent keeps.
UriUnreserved ==
    (65..90) \cup (97..122) \cup (48..57) \cup {45, 95, 46, 33, 126, 42, 39, 40, 41}

IsLeadSurrogate(c) == c >= 55296 /\ c <= 56319
IsTrailSurrogate(c) == c >= 56320 /\ c <= 57343

\* The upper-case hexadecimal digit of a number below 16.
HexDigit(n) == IF n < 10 THEN 48 + n ELSE 55 + n

\* The number a hexadecimal digit of either case denotes, or -1.
HexValue(c) ==
    IF c >= 48 /\ c <= 57 THEN c - 48
    ELSE IF c >= 65 /\ c <= 70 THEN c - 55
    ELSE IF c >= 97 /\ c <= 102 THEN c - 87
    ELSE -1

\* Mutant: a code point below 256 is one octet, as in escape().
Utf8Octets_latin1(v) ==
    IF v < 256 THEN <<v>>
    ELSE IF v < 2048 THEN <<192 + (v \div 64), 128 + (v % 64)>>
    ELSE IF v < 65536
    THEN <<224 + (v \div 4096), 128 + ((v \div 64) % 64), 128 + (v % 64)>>
    ELSE <<240 + (v \div 262144), 128 + ((v \div 4096) % 64),
           128 + ((v \div 64) % 64), 128 + (v % 64)>>

\* The UTF-8 octets of a code point.
Utf8Octets(v) ==
    IF v < 128 THEN <<v>>
    ELSE IF v < 2048 THEN <<192 + (v \div 64), 128 + (v % 64)>>
    ELSE IF v < 65536
    THEN <<224 + (v \div 4096), 128 + ((v \div 64) % 64), 128 + (v % 64)>>
    ELSE <<240 + (v \div 262144), 128 + ((v \div 4096) % 64),
           128 + ((v \div 64) % 64), 128 + (v % 64)>>

\* %XX for every octet.
RECURSIVE PercentEscapes(_)
PercentEscapes(octets) ==
    IF octets = <<>> THEN <<>>
    ELSE <<ChPercent, HexDigit(octets[1] \div 16), HexDigit(octets[1] % 16)>>
            \o PercentEscapes(Tail(octets))

\* encodeURIComponent on the code units from position k on: an unreserved
\* character stays, any other code point becomes the escapes of its UTF-8
\* octets, and a surrogate without its partner throws URIError.
RECURSIVE encodeURIComponent(_, _)
encodeURIComponent(str, k) ==
    IF k > Len(str) THEN Returned(<<>>)
    ELSE LET c == str[k]
             pair == IsLeadSurrogate(c) /\ k < Len(str) /\ IsTrailSurrogate(str[k + 1])
             v == IF pair THEN (c - 55296) * 1024 + (str[k + 1] - 56320) + 65536 ELSE c
             rest == encodeURIComponent(str, IF pair THEN k + 2 ELSE k + 1)
         IN  IF c \in UriUnreserved
             THEN IF rest.threw THEN Thrown ELSE Returned(<<c>> \o rest.value)
             ELSE IF IsTrailSurrogate(c) \/ (IsLeadSurrogate(c) /\ ~pair) THEN Thrown
             ELSE IF rest.threw THEN Thrown
             ELSE Returned(PercentEscapes(Utf8Octets(v)) \o rest.value)

\* The octet of the escape at position k, or -1 when there is no %XX there.
EscapeAt(str, k) ==
    IF /\ k + 2 <= Len(str)
       /\ str[k] = ChPercent
       /\ HexValue(str[k + 1]) >= 0
       /\ HexValue(str[k + 2]) >= 0
    THEN 16 * HexValue(str[k + 1]) + HexValue(str[k + 2])
    ELSE -1

\* The number of octets the lead octet b announces, 0 when b cannot lead.
Utf8Length(b) ==
    IF b < 128 THEN 1
    ELSE IF b >= 192 /\ b <= 223 THEN 2
    ELSE IF b >= 224 /\ b <= 239 THEN 3
    ELSE IF b >= 240 /\ b <= 247 THEN 4
    ELSE 0

\* The code point of n escapes from position k on, or -1 when they are not
\* the UTF-8 encoding of a code point.
Utf8CodePoint(str, k, n) ==
    LET octet(j) == EscapeAt(str, k + 3 * (j - 1))
        continued == \A j \in 2..n : octet(j) >= 128 /\ octet(j) <= 191
        bits(j) == octet(j) % 64
        v == IF n = 2 THEN (octet(1) % 32) * 64 + bits(2)
             ELSE IF n = 3 THEN (octet(1) % 16) * 4096 + bits(2) * 64 + bits(3)
             ELSE (octet(1) % 8) * 262144 + bits(2) * 4096 + bits(3) * 64 + bits(4)
        least == IF n = 2 THEN 128 ELSE IF n = 3 THEN 2048 ELSE 65536
    IN  IF ~continued THEN -1
        ELSE IF v < least \/ v > 1114111 \/ (v >= 55296 /\ v <= 57343) THEN -1
        ELSE v

\* The UTF-16 code units of a code point.
Utf16Units(v) ==
    IF v < 65536 THEN <<v>>
    ELSE <<55296 + ((v - 65536) \div 1024), 56320 + ((v - 65536) % 1024)>>

\* decodeURIComponent on the code units from position k on: a character
\* other than % stays; a % must start the escapes of the UTF-8 octets of a
\* code point, or URIError is thrown.
RECURSIVE decodeURIComponent(_, _)
decodeURIComponent(str, k) ==
    IF k > Len(str) THEN Returned(<<>>)
    ELSE IF str[k] # ChPercent
    THEN LET rest == decodeURIComponent(str, k + 1)
         IN  IF rest.threw THEN Thrown ELSE Returned(<<str[k]>> \o rest.value)
    ELSE LET b == EscapeAt(str, k)
             n == IF b < 0 THEN 0 ELSE Utf8Length(b)
             v == IF n = 0 THEN -1 ELSE IF n = 1 THEN b ELSE Utf8CodePoint(str, k, n)
             rest == decodeURIComponent(str, k + 3 * n)
         IN  IF v < 0 THEN Thrown
             ELSE IF rest.threw THEN Thrown
             ELSE Returned(Utf16Units(v) \o rest.value)

\* Mutant: the error of decodeURIComponent is not caught.
parse_uncaught(value) == decodeURIComponent(value, 1)

\* parse: try { return decodeURIComponent(value) } catch { return value }
parse(value) ==
    LET decoded == decodeURIComponent(value, 1)
    IN  IF decoded.threw THEN Returned(value) ELSE decoded

\* serialize: value => encodeURIComponent(value)
serialize(value) == encodeURIComponent(value, 1)

\* Code units of the values of a query: a, space, %, +, 2, e with acute,
\* the euro sign, and the two surrogates of an emoji.
ValueUnits == {97, ChSpace, ChPercent, ChPlus, 50, 233, 8364, 55357, 56832}

\* Code units of the text of a query parameter: %, 2, 5, C, 3, z, a.
ParameterUnits == {ChPercent, 50, 53, 67, 51, 122, 97}

EncInit ==
    /\ \/ encPc = "serialize" /\ encArg \in SeqsUpTo(ValueUnits, MaxStringLen)
       \/ encPc = "parse" /\ encArg \in SeqsUpTo(ParameterUnits, MaxEncodedLen)
    /\ encSerialized = <<>>
    /\ encParsed = <<>>
    /\ CoreIdle /\ UiIdle /\ ScoreIdle /\ RoleIdle /\ PrefIdle /\ OidcIdle

\* The state is written to the URL: serialize(encArg).
CallSerialize ==
    /\ encPc = "serialize"
    /\ encSerialized' = serialize(encArg)
    /\ encPc' = IF encSerialized'.threw THEN "threw" ELSE "written"
    /\ UNCHANGED <<encArg, encParsed, encOtherVars>>

\* The URL is read back: parse of what serialize wrote.
CallParseSerialized ==
    /\ encPc = "written"
    /\ encParsed' = parse(encSerialized.value)
    /\ encPc' = IF encParsed'.threw THEN "threw" ELSE "done"
    /\ UNCHANGED <<encArg, encSerialized, encOtherVars>>

\* A URL from elsewhere is read: parse(encArg).
CallParse ==
    /\ encPc = "parse"
    /\ encParsed' = parse(encArg)
    /\ encPc' = IF encParsed'.threw THEN "threw" ELSE "read"
    /\ UNCHANGED <<encArg, encSerialized, encOtherVars>>

EncNext == CallSerialize \/ CallParseSerialized \/ CallParse

EncSpec == EncInit /\ [][EncNext]_vars

\* Every surrogate of the string has its partner next to it.
WellFormed(str) ==
    \A k \in 1..Len(str) :
        /\ IsLeadSurrogate(str[k]) => k < Len(str) /\ IsTrailSurrogate(str[k + 1])
        /\ IsTrailSurrogate(str[k]) => k > 1 /\ IsLeadSurrogate(str[k - 1])

\* Some % of the string is not followed by two hexadecimal digits.
MalformedPercent(str) ==
    \E k \in 1..Len(str) :
        /\ str[k] = ChPercent
        /\ ~(/\ k + 2 <= Len(str)
             /\ HexValue(str[k + 1]) >= 0
             /\ HexValue(str[k + 2]) >= 0)

\* parse returns, and returns its argument when a percent sequence of the
\* argument is malformed.
ParseIsTotal ==
    /\ encPc # "threw" \/ encSerialized # <<>>
    /\ encPc = "read" =>
          /\ ~encParsed.threw
          /\ MalformedPercent(encArg) => encParsed.value = encArg

\* C25 as stated: for every string s, parse(serialize(s)) = s, and parse
\* never throws and returns a malformed input unchanged.
C25_RoundTripEveryString ==
    /\ encPc \in {"threw", "done"} => encPc = "done" /\ encParsed.value = encArg
    /\ ParseIsTotal

\* C25, amended: for every string s in which every surrogate is paired,
\* parse(serialize(s)) = s, and serialize throws for any other string; parse
\* never throws and returns a malformed input unchanged.
C25_RoundTripWellFormed ==
    /\ encPc \in {"threw", "done"} =>
          IF WellFormed(encArg)
          THEN encPc = "done" /\ encParsed.value = encArg
          ELSE encPc = "threw" /\ encSerialized.threw
    /\ ParseIsTotal

\* "% " followed by an emoji went through serialize and parse.
C25_Witness ==
    /\ encPc = "done"
    /\ encArg = <<ChPercent, 55357, 56832>>
    /\ encSerialized.value # encArg
    /\ encParsed.value = encArg

\* parse was given "a%z" and "%C3z" and returned them.
C25_WitnessMalformed ==
    /\ encPc = "read"
    /\ encArg \in {<<97, ChPercent, 122>>, <<ChPercent, 67, 51, 122>>}
    /\ encParsed = Returned(encArg)

(***************************************************************************)
(* User preferences and their migration.  A stored string is a text: the   *)
(* JSON text of a value, compact as JSON.stringify writes it or with       *)
(* spaces, or a text that is not JSON.  Two texts are the same string when *)
(* they are equal.  An object is Obj of its entries in key order.          *)
(***************************************************************************)
MaxReads == 3

\* localStorage.getItem(key) === null
NoItem == [json |-> FALSE, text |-> "null", item |-> FALSE]

\* The empty string, and a string that JSON.parse rejects.
EmptyText == [json |-> FALSE, text |-> "", item |-> TRUE]
InvalidText == [json |-> FALSE, text |-> "{oops", item |-> TRUE]

JsonText(value, spaced) == [json |-> TRUE, value |-> value, spaced |-> spaced, item |-> TRUE]

Bool(b) == [t |-> "boolean", s |-> IF b THEN "true" ELSE "false"]

\* JSON.parse(text): the value, or a SyntaxError.
JSONparse(text) == IF text.json THEN Returned(text.value) ELSE Thrown

\* JSON.stringify(value): the compact text of the value.
JSONstringify(value) == JsonText(value, FALSE)

DEFAULT_PREFERENCES ==
    Obj(<< <<"isUTC", Bool(FALSE)>>,
           <<"timeFormat", Str("12h")>>,
           <<"colorMode", Str("system")>>,
           <<"font", Str("IBM Plex Mono")>> >>)

\* typeof obj === 'object' && obj !== null: objects and arrays; an array
\* parsed from JSON has no named property.
Entries(value) ==
    IF value.t = "object" THEN value.f ELSE <<>>

IsObjectOrArray(value) == value.t \in {"object", "array"}

isUserPreferences(obj) ==
    IF ~IsObjectOrArray(obj) THEN FALSE
    ELSE /\ MapHas(Entries(obj), "colorMode")
         /\ MapGet(Entries(obj), "colorMode") \in {Str("light"), Str("dark"), Str("system")}

\* A parsed object never holds undefined, so a theme that is present is
\* valid only as the string light or dark.
isLegacyUserPreferences(obj) ==
    IF ~IsObjectOrArray(obj) THEN FALSE
    ELSE LET hasTheme == MapHas(Entries(obj), "theme")
             hasColorMode == MapHas(Entries(obj), "colorMode")
         IN  IF ~hasTheme \/ hasColorMode THEN FALSE
             ELSE MapGet(Entries(obj), "theme") \in {Str("light"), Str("dark")}

\* const { theme, ...rest } = parsed
RestWithoutTheme(entries) == SelectSeq(entries, LAMBDA e : e[1] # "theme")

\* { ...target, ...source }: the entries of source set one by one.
RECURSIVE Spread(_, _)
Spread(target, source) ==
    IF source = <<>> THEN target
    ELSE Spread(MapSet(target, source[1][1], source[1][2]), Tail(source))

\* Mutant: the defaults are spread over the stored fields.
Migrated_defaultsLast(parsed) ==
    LET theme == MapGet(Entries(parsed), "theme")
        validTheme == IF theme \in {Str("light"), Str("dark")} THEN theme ELSE Str("dark")
    IN  Obj(MapSet(Spread(RestWithoutTheme(Entries(parsed)), DEFAULT_PREFERENCES.f),
                   "colorMode", validTheme))

\* migrated = { ...DEFAULT_PREFERENCES, ...rest, colorMode: validTheme }
Migrated(parsed) ==
    LET theme == MapGet(Entries(parsed), "theme")
        validTheme == IF theme \in {Str("light"), Str("dark")} THEN theme ELSE Str("dark")
    IN  Obj(MapSet(Spread(DEFAULT_PREFERENCES.f, RestWithoutTheme(Entries(parsed))),
                   "colorMode", validTheme))

\* migrationCache = null
NoCache == [cached |-> FALSE]

\* Mutant: nothing is remembered.
Cache_none(storedValue, result) == NoCache

\* migrationCache = { storedValue, result }
Cache(storedValue, result) == [cached |-> TRUE, storedValue |-> storedValue, result |-> result]

\* migrationCache && migrationCache.storedValue === stored
CacheHit(cache, stored) == cache.cached /\ cache.storedValue = stored

\* migrateUserPreferences(stored) with the module's cache and the stored
\* item; setItemWorks tells whether localStorage.setItem returns or throws.
\* The outcome is the returned value, the cache and the item afterwards, and
\* the number of setItem calls made.
migrateUserPreferences(stored, cache, item, setItemWorks) ==
    IF ~stored.item \/ stored = EmptyText
    THEN [result |-> Null, cache |-> NoCache, item |-> item, writes |-> 0]
    ELSE IF CacheHit(cache, stored)
    THEN [result |-> cache.result, cache |-> cache, item |-> item, writes |-> 0]
    ELSE LET parsed == JSONparse(stored)
         IN  IF parsed.threw
             THEN [result |-> Null, cache |-> NoCache, item |-> item, writes |-> 0]
             ELSE IF isLegacyUserPreferences(parsed.value)
             THEN LET migrated == Migrated(parsed.value)
                      migratedJson == JSONstringify(migrated)
                      write == item # migratedJson
                  IN  [result |-> migrated,
                       cache |-> Cache(stored, migrated),
                       item |-> IF write /\ setItemWorks THEN migratedJson ELSE item,
                       writes |-> IF write THEN 1 ELSE 0]
             ELSE IF isUserPreferences(parsed.value)
             THEN [result |-> parsed.value, cache |-> Cache(stored, parsed.value),
                   item |-> item, writes |-> 0]
             ELSE [result |-> Null, cache |-> Cache(stored, Null),
                   item |-> item, writes |-> 0]

\* A field that a stored object may lack.
Missing == [t |-> "undefined", s |-> "undefined"]

Field(key, value) == IF value = Missing THEN <<>> ELSE << <<key, value>> >>

\* The objects found in storage: any combination of a theme, a colour mode
\* and two other preferences, valid or not.
StoredObjects ==
    {Obj(Field("isUTC", isUTC) \o Field("theme", theme)
            \o Field("colorMode", colorMode) \o Field("font", font)) :
        isUTC \in {Missing, Bool(TRUE)},
        theme \in {Missing, Str("light"), Str("dark"), Str("blue"), Null},
        colorMode \in {Missing, Str("light"), Str("dark"), Str("system"), Str("blue"), Num(5)},
        font \in {Missing, Str("Inter")}}

StoredItems ==
    {NoItem, EmptyText, InvalidText}
        \cup {JsonText(value, spaced) :
                value \in StoredObjects \cup {Null, Num(5), Arr(<<>>), Str("dark")},
                spaced \in BOOLEAN}

PrefInit ==
    /\ localStorage \in StoredItems
    /\ migrationCache = NoCache
    /\ prefMigrated = <<>>
    /\ prefReturned = <<>>
    /\ prefWrites = 0
    /\ CoreIdle /\ UiIdle /\ ScoreIdle /\ RoleIdle /\ EncIdle /\ OidcIdle

\* storageWithMigration.getItem(STORAGE_KEY, DEFAULT_PREFERENCES) in the
\* browser, as the atom calls it.
GetItem ==
    \E setItemWorks \in BOOLEAN :
        LET stored == localStorage
            outcome == migrateUserPreferences(stored, migrationCache, localStorage, setItemWorks)
        IN  /\ Len(prefMigrated) < MaxReads
            /\ localStorage' = outcome.item
            /\ migrationCache' = outcome.cache
            /\ prefMigrated' = Append(prefMigrated, outcome.result)
            /\ prefReturned' = IF outcome.result = Null THEN DEFAULT_PREFERENCES
                               ELSE outcome.result
            /\ prefWrites' = prefWrites + outcome.writes
            /\ UNCHANGED prefOtherVars

PrefNext == GetItem

PrefSpec == PrefInit /\ [][PrefNext]_vars

(***************************************************************************)
(* Properties of the migration, stated on the stored text.                 *)
(***************************************************************************)
StoredKeys(text) == SetOf(MapKeys(text.value.f))

HasValidTheme(text) ==
    /\ text.json /\ text.value.t = "object"
    /\ "theme" \in StoredKeys(text)
    /\ MapGet(text.value.f, "theme") \in {Str("light"), Str("dark")}

HasValidColorMode(text) ==
    /\ text.json /\ text.value.t = "object"
    /\ "colorMode" \in StoredKeys(text)
    /\ MapGet(text.value.f, "colorMode") \in {Str("light"), Str("dark"), Str("system")}

\* A legacy object: a theme of light or dark and no colorMode key.
LegacyStored(text) ==
    HasValidTheme(text) /\ "colorMode" \notin StoredKeys(text)

\* The value the last migrateUserPreferences call returned.
LastMigrated(results) == results[Len(results)]

\* C26: a call on a legacy object returns an object without theme, whose
\* colorMode is the stored theme, whose other stored fields are as stored and
\* whose missing fields have their defaults; a call on an object with a valid
\* colorMode returns the stored object; a call on text that is not JSON, on
\* a value with neither a valid theme nor a valid colorMode, or on empty
\* storage returns null.
C26_MigrationResult ==
    [][prefMigrated' # prefMigrated =>
        LET stored == localStorage
            result == LastMigrated(prefMigrated')
            defaults == SetOf(MapKeys(DEFAULT_PREFERENCES.f))
        IN  /\ LegacyStored(stored) =>
                  /\ result.t = "object"
                  /\ SetOf(MapKeys(result.f))
                        = (StoredKeys(stored) \ {"theme"}) \cup defaults
                  /\ MapGet(result.f, "colorMode") = MapGet(stored.value.f, "theme")
                  /\ \A k \in StoredKeys(stored) \ {"theme"} :
                        MapGet(result.f, k) = MapGet(stored.value.f, k)
                  /\ \A k \in defaults \ (StoredKeys(stored) \cup {"colorMode"}) :
                        MapGet(result.f, k) = MapGet(DEFAULT_PREFERENCES.f, k)
            /\ HasValidColorMode(stored) => result = stored.value
            /\ (~HasValidTheme(stored) /\ ~HasValidColorMode(stored)) => result = Null]_vars

\* The legacy object {isUTC: true, theme: "light", font: "Inter"} was read.
C26_Witness ==
    /\ prefMigrated # <<>>
    /\ prefMigrated[1] = Obj(<< <<"isUTC", Bool(TRUE)>>,
                                <<"timeFormat", Str("12h")>>,
                                <<"colorMode", Str("light")>>,
                                <<"font", Str("Inter")>> >>)

\* An object with a valid colorMode and a stale theme was returned as stored.
C26_WitnessStored ==
    /\ prefMigrated # <<>>
    /\ prefMigrated[1] = Obj(<< <<"theme", Str("blue")>>, <<"colorMode", Str("system")>> >>)

\* C27: there is at most one setItem call, made by the first read, of a
\* legacy value, and what it stores is the JSON of the migrated result;
\* every later read makes no call and returns the first result; and a read
\* answered from the cache returns what the computation without a cache
\* returns for the same stored string.
C27_SingleMigrationWrite ==
    /\ [](prefWrites <= 1)
    /\ [][prefMigrated' # prefMigrated =>
            /\ prefWrites' # prefWrites =>
                  /\ prefMigrated = <<>>
                  /\ LegacyStored(localStorage)
                  /\ localStorage' \in
                        {localStorage, JSONstringify(LastMigrated(prefMigrated'))}
            /\ prefWrites' = prefWrites => localStorage' = localStorage
            /\ prefMigrated # <<>> =>
                  /\ prefWrites' = prefWrites
                  /\ LastMigrated(prefMigrated') = prefMigrated[1]
            /\ CacheHit(migrationCache, localStorage) =>
                  LastMigrated(prefMigrated')
                    = migrateUserPreferences(localStorage, NoCache, localStorage, TRUE).result]_vars

\* A legacy value was migrated and written once; two more reads followed,
\* the last one answered from the cache for the written string.
C27_Witness ==
    /\ prefWrites = 1
    /\ Len(prefMigrated) = 3
    /\ localStorage = JSONstringify(prefMigrated[1])
    /\ CacheHit(migrationCache, localStorage)
    /\ prefMigrated[3] = prefMigrated[1]

\* The write of the migrated value failed; the later reads found the legacy
\* value in the cache and did not write again.
C27_WitnessFailedWrite ==
    /\ prefWrites = 1
    /\ Len(prefMigrated) = 3
    /\ LegacyStored(localStorage)
    /\ CacheHit(migrationCache, localStorage)

(***************************************************************************)
(* OIDC users.  The User and Team collections are sequences of documents,  *)
(* a document's _id being its position; an unset string field is "".      *)
(* A findOrCreateOidcUser call advances by one await at a time, so calls   *)
(* of concurrent requests interleave between their database operations.    *)
(***************************************************************************)
MaxLogins == 2

Logins == 1..MaxLogins

UpperCaseLetters == "ABCDEFGHIJKLMNOPQRSTUVWXYZ"
LowerCaseLetters == "abcdefghijklmnopqrstuvwxyz"

\* String.prototype.toLowerCase on the letters A-Z.
RECURSIVE toLowerCase(_)
toLowerCase(str) ==
    IF str = "" THEN ""
    ELSE LET ch == CharAt(str, 1)
             low == IF Includes(UpperCaseLetters, ch)
                    THEN CharAt(LowerCaseLetters,
                                CHOOSE i \in 1..Len(UpperCaseLetters) :
                                    CharAt(UpperCaseLetters, i) = ch)
                    ELSE ch
         IN  low \o toLowerCase(SubSeq(str, 2, Len(str)))

\* The smallest element of a non-empty set of positions, 0 for the empty set.
FirstOf(positions) ==
    IF positions = {} THEN 0
    ELSE CHOOSE i \in positions : \A j \in positions : i <= j

\* User.findOne({ oidcSubject, oidcIssuer }): the _id found, or 0.
FindBySubjectIssuer(docs, subject, issuer) ==
    FirstOf({i \in 1..Len(docs) :
                docs[i].oidcSubject = subject /\ docs[i].oidcIssuer = issuer})

\* User.findOne({ email }): the _id found, or 0.
FindByEmailAddress(docs, email) ==
    FirstOf({i \in 1..Len(docs) : docs[i].email = email})

\* The unique indexes of the User schema: { email: 1 }, and the sparse index
\* { oidcSubject: 1, oidcIssuer: 1 }, which skips documents with neither field.
UniqueIndexesHold(docs) ==
    \A i, j \in 1..Len(docs) :
        i # j =>
            /\ docs[i].email # docs[j].email
            /\ (docs[i].oidcSubject # "" \/ docs[i].oidcIssuer # "") =>
                    ~(/\ docs[i].oidcSubject = docs[j].oidcSubject
                      /\ docs[i].oidcIssuer = docs[j].oidcIssuer)

\* A call that has not started.
NoLogin == [pc |-> "idle"]

\* The call of login p moves to pc with the locals changed as given.
At(login, pc, user, team) == [login EXCEPT !.pc = pc, !.user = user, !.team = team]

\* Mutant: the role of the stored user is left as it is.
LinkedUser_keepRole(doc, info) ==
    [doc EXCEPT !.oidcSubject = info.oidcSubject,
                !.oidcIssuer = info.oidcIssuer,
                !.name = IF doc.name = "" \/ doc.name = doc.email THEN info.name
                         ELSE doc.name]

\* The document after step 2 linked the identity to it.
LinkedUser(doc, info) ==
    [doc EXCEPT !.oidcSubject = info.oidcSubject,
                !.oidcIssuer = info.oidcIssuer,
                !.role = info.role,
                !.name = IF doc.name = "" \/ doc.name = doc.email THEN info.name
                         ELSE doc.name]

\* new User({ email: info.email.toLowerCase(), name, team, role, ... })
NewUser(info, team) ==
    [email |-> toLowerCase(info.email),
     name |-> info.name,
     team |-> team,
     role |-> info.role,
     oidcSubject |-> info.oidcSubject,
     oidcIssuer |-> info.oidcIssuer]

\* A write that the unique indexes reject throws; the collection stays.
SaveUsers(docs) == IF UniqueIndexesHold(docs) THEN docs ELSE users

(***************************************************************************)
(* Databases and arguments.                                                *)
(***************************************************************************)
PasswordUser ==
    [email |-> "ann@x.io", name |-> "ann@x.io", team |-> 1, role |-> "admin",
     oidcSubject |-> "", oidcIssuer |-> ""]

OidcUser ==
    [email |-> "bob@x.io", name |-> "Bob", team |-> 1, role |-> "member",
     oidcSubject |-> "s1", oidcIssuer |-> "kc"]

FirstTeam == [name |-> "First Team"]

\* A fresh database, and databases of a team with users.
OidcDatabases ==
    {[users |-> <<>>, teams |-> <<>>],
     [users |-> <<PasswordUser>>, teams |-> <<FirstTeam>>],
     [users |-> <<OidcUser>>, teams |-> <<FirstTeam>>],
     [users |-> <<PasswordUser, OidcUser>>, teams |-> <<FirstTeam>>]}

OidcInfos ==
    [email : {"Ann@x.io", "bob@x.io", "cy@x.io"},
     name : {"Ann"},
     oidcSubject : {"s1", "s2"},
     oidcIssuer : {"kc"},
     role : {"admin", "viewer"}]

OidcInit ==
    /\ \E db \in OidcDatabases : users = db.users /\ teams = db.teams
    /\ logins = [p \in Logins |-> NoLogin]
    /\ CoreIdle /\ UiIdle /\ ScoreIdle /\ RoleIdle /\ EncIdle /\ PrefIdle

\* A request calls findOrCreateOidcUser(info).  `before` keeps the User
\* collection as the call found it.
Call(p, info) ==
    /\ logins[p].pc = "idle"
    /\ logins' = [logins EXCEPT ![p] =
                    [pc |-> "findBySubject", info |-> info, user |-> 0, team |-> 0,
                     before |-> users]]
    /\ UNCHANGED <<users, teams, oidcOtherVars>>

\* A request calls it while other calls may be in flight.
CallLogin ==
    \E p \in Logins, info \in OidcInfos : Call(p, info)

\* A request calls it when no other call is in flight.
CallLoginAlone ==
    \E p \in Logins, info \in OidcInfos :
        /\ \A q \in Logins : logins[q].pc \in {"idle", "done", "failed"}
        /\ Call(p, info)

\* 1. user = await User.findOne({ oidcSubject, oidcIssuer })
FindBySubject ==
    \E p \in Logins :
        LET login == logins[p]
            found == FindBySubjectIssuer(users, login.info.oidcSubject,
                                         login.info.oidcIssuer)
        IN  /\ login.pc = "findBySubject"
            /\ logins' = [logins EXCEPT ![p] =
                  IF found = 0 THEN At(login, "findByEmail", 0, 0)
                  ELSE IF users[found].role # login.info.role
                  THEN At(login, "saveRole", found, 0)
                  ELSE At(login, "done", found, 0)]
            /\ UNCHANGED <<users, teams, oidcOtherVars>>

\* user.role = info.role; await user.save(); return user
SaveRole ==
    \E p \in Logins :
        LET login == logins[p]
        IN  /\ login.pc = "saveRole"
            /\ users' = [users EXCEPT ![login.user].role = login.info.role]
            /\ logins' = [logins EXCEPT ![p] = At(login, "done", login.user, 0)]
            /\ UNCHANGED <<teams, oidcOtherVars>>

\* 2. user = await User.findOne({ email: info.email.toLowerCase() })
FindByEmail ==
    \E p \in Logins :
        LET login == logins[p]
            found == FindByEmailAddress(users, toLowerCase(login.info.email))
        IN  /\ login.pc = "findByEmail"
            /\ logins' = [logins EXCEPT ![p] =
                  IF found = 0 THEN At(login, "findTeam", 0, 0)
                  ELSE At(login, "saveLink", found, 0)]
            /\ UNCHANGED <<users, teams, oidcOtherVars>>

\* The identity is linked: await user.save(); return user
SaveLink ==
    \E p \in Logins :
        LET login == logins[p]
            saved == [users EXCEPT ![login.user] = LinkedUser(@, login.info)]
        IN  /\ login.pc = "saveLink"
            /\ users' = SaveUsers(saved)
            /\ logins' = [logins EXCEPT ![p] =
                  At(login, IF UniqueIndexesHold(saved) THEN "done" ELSE "failed",
                     login.user, 0)]
            /\ UNCHANGED <<teams, oidcOtherVars>>

\* 3. team = await Team.findOne({})
FindTeam ==
    \E p \in Logins :
        LET login == logins[p]
        IN  /\ login.pc = "findTeam"
            /\ logins' = [logins EXCEPT ![p] =
                  IF teams = <<>> THEN At(login, "createTeam", 0, 0)
                  ELSE At(login, "saveUser", 0, 1)]
            /\ UNCHANGED <<users, teams, oidcOtherVars>>

\* createTeam, first await: it refuses when it finds a team.
CreateTeamCheck ==
    \E p \in Logins :
        LET login == logins[p]
        IN  /\ login.pc = "createTeam"
            /\ logins' = [logins EXCEPT ![p] =
                  At(login, IF teams # <<>> THEN "failed" ELSE "saveTeam", 0, 0)]
            /\ UNCHANGED <<users, teams, oidcOtherVars>>

\* createTeam, second await: team.save().  setupTeamDefaults follows; its
\* errors are caught and it touches neither collection.
CreateTeamSave ==
    \E p \in Logins :
        LET login == logins[p]
        IN  /\ login.pc = "saveTeam"
            /\ teams' = Append(teams, [name |-> login.info.name \o "'s Team"])
            /\ logins' = [logins EXCEPT ![p] = At(login, "saveUser", 0, Len(teams) + 1)]
            /\ UNCHANGED <<users, oidcOtherVars>>

\* user = new User({...}); await user.save(); return user
SaveUser ==
    \E p \in Logins :
        LET login == logins[p]
            saved == Append(users, NewUser(login.info, login.team))
        IN  /\ login.pc = "saveUser"
            /\ users' = SaveUsers(saved)
            /\ logins' = [logins EXCEPT ![p] =
                  IF UniqueIndexesHold(saved)
                  THEN At(login, "done", Len(saved), login.team)
                  ELSE At(login, "failed", 0, login.team)]
            /\ UNCHANGED <<teams, oidcOtherVars>>

OidcSteps ==
    \/ FindBySubject
    \/ SaveRole
    \/ FindByEmail
    \/ SaveLink
    \/ FindTeam
    \/ CreateTeamCheck
    \/ CreateTeamSave
    \/ SaveUser

\* Requests served one after the other.
OidcSeqNext == CallLoginAlone \/ OidcSteps

OidcSeqSpec == OidcInit /\ [][OidcSeqNext]_vars

\* Requests served concurrently.
OidcNext == CallLogin \/ OidcSteps

OidcSpec == OidcInit /\ [][OidcNext]_vars

(***************************************************************************)
(* Properties of findOrCreateOidcUser.                                     *)
(***************************************************************************)
\* The call of login p returns in this step.
Returns(p) == logins[p].pc # "done" /\ logins'[p].pc = "done"

\* The _id that the three steps are to return for info on the collection docs:
\* the user of the identity, else the user of the lower-cased email, else a
\* new document.
ExpectedUser(docs, info) ==
    LET bySubject == {i \in 1..Len(docs) :
                        /\ docs[i].oidcSubject = info.oidcSubject
                        /\ docs[i].oidcIssuer = info.oidcIssuer}
        byEmail == {i \in 1..Len(docs) : docs[i].email = toLowerCase(info.email)}
    IN  IF bySubject # {} THEN FirstOf(bySubject)
        ELSE IF byEmail # {} THEN FirstOf(byEmail)
        ELSE Len(docs) + 1

\* C28: when findOrCreateOidcUser(info) returns, the returned user is the one
\* found by subject and issuer, else the one found by lower-cased email, else
\* a new one; its stored role, oidcSubject and oidcIssuer are those of info,
\* and every other user is stored as it was before the call.
C28_ReturnedUserCarriesIdentity ==
    [][\A p \in Logins :
          Returns(p) =>
              LET login == logins'[p]
                  info == login.info
                  stored == users'[login.user]
              IN  /\ login.user = ExpectedUser(login.before, info)
                  /\ stored.role = info.role
                  /\ stored.oidcSubject = info.oidcSubject
                  /\ stored.oidcIssuer = info.oidcIssuer
                  /\ \A i \in 1..Len(login.before) :
                        i # login.user => users'[i] = login.before[i]]_vars

\* C28 witness: a call returned the user of its identity although another
\* user has its email, and that other user is stored unmodified.
C28_Witness ==
    \E p \in Logins :
        /\ logins[p].pc = "done"
        /\ logins[p].before = <<PasswordUser, OidcUser>>
        /\ toLowerCase(logins[p].info.email) = PasswordUser.email
        /\ logins[p].info.oidcSubject = OidcUser.oidcSubject
        /\ logins[p].info.role # OidcUser.role
        /\ logins[p].user = 2
        /\ users[2].role = logins[p].info.role
        /\ users[1] = PasswordUser

\* C28 witness: a call linked its identity to the account of its email, which
\* it spelt with a capital letter.
C28_WitnessLinked ==
    \E p \in Logins :
        /\ logins[p].pc = "done"
        /\ logins[p].before = <<PasswordUser>>
        /\ logins[p].info.email = "Ann@x.io"
        /\ logins[p].info.role = "viewer"
        /\ logins[p].user = 1
        /\ users[1].oidcSubject = logins[p].info.oidcSubject
        /\ users[1].role = "viewer"

\* C28 witness: a call provisioned a new user.
C28_WitnessProvisioned ==
    \E p \in Logins :
        /\ logins[p].pc = "done"
        /\ logins[p].before = <<OidcUser>>
        /\ logins[p].user = 2
        /\ Len(users) = 2
        /\ users[2].oidcSubject = logins[p].info.oidcSubject

\* C29: when the calls started from a database with no team, at most one team
\* has been created and every user references it.
C29_SingleTeamPreserved ==
    (teams # <<>> /\ teams[1] # FirstTeam) =>
        /\ Len(teams) = 1
        /\ \A i \in 1..Len(users) : users[i].team = 1

\* Two calls for new users, started on the empty database, each created a
\* team and provisioned its user into it.
C29_TwoTeams ==
    /\ Len(teams) = 2
    /\ Len(users) = 2
    /\ users[1].team # users[2].team
    /\ \A p \in Logins : logins[p].pc = "done" /\ logins[p].before = <<>>

====
